---- MODULE Spec2Model ----
(***************************************************************************)
(* CV-Manager: the e-mail ingestion pipeline (runSync), the grouped        *)
(* Application upsert, the follow-up scheduler and the manual edits that   *)
(* share the same store.                                                   *)
(*                                                                         *)
(* Text is modelled as a sequence of one-character strings, so that the    *)
(* normalisations of the source (trim, lower-casing, regular-expression    *)
(* replacements) are computed and not assumed.  Time is in seconds.        *)
(***************************************************************************)
EXTENDS Integers, Sequences, FiniteSets, TLC

(***************************************************************************)
(* Bounds of the model                                                     *)
(***************************************************************************)
\* number of runSync() invocations explored
MaxRuns == 3
\* number of one-day clock advances explored
MaxDays == 1
\* number of manual edits (patchApplication / completeFollowup / settings)
MaxEdits == 1
\* largest syncLookbackDays / followupAfterDays a settings change may store
MaxSettingDays == 2
\* calls to the mailbox provider, the AI adapter or the store that fail
MaxFaults == 1
\* answers of the AI adapter that reach the confidence threshold
MaxAiAnswers == 1
\* direct calls of the follow-up scheduler
MaxRefreshCalls == 3
\* runs when two runs may interleave
MaxRaceRuns == 2
\* answers the AI server has ready for one extractWithOllama call
MaxReplies == 3
\* runs over a full inbox with an unreliable provider and AI adapter
MaxIntakeRuns == 2
\* fragments a message body handed to the classifier is put together from
MaxFragments == 2

(***************************************************************************)
(* Program constants                                                       *)
(***************************************************************************)
\* Date.setDate(getDate() + n): one calendar day, in seconds
Day == 86400
\* followupService.ts: Math.abs(...) > 1000 (milliseconds), in seconds
DriftTolerance == 1
\* ollamaService.ts: slice(0, 12)
MaxKeyWords == 12
\* config.OLLAMA_MIN_CONFIDENCE default 0.7, in percent
OLLAMA_MIN_CONFIDENCE == 70
\* two consecutive timeout aborts disable AI for the run
AbortLimit == 2

(***************************************************************************)
(* Characters and strings                                                  *)
(***************************************************************************)
Upper == <<"A","B","C","D","E","F","G","H","I","J","K","L","M",
           "N","O","P","Q","R","S","T","U","V","W","X","Y","Z">>
LowerLetters == <<"a","b","c","d","e","f","g","h","i","j","k","l","m",
                  "n","o","p","q","r","s","t","u","v","w","x","y","z">>
Digits == {"0","1","2","3","4","5","6","7","8","9"}
LowerSet == {LowerLetters[i] : i \in 1..26}
UpperSet == {Upper[i] : i \in 1..26}

\* String.prototype.toLowerCase on one character
LowerChar(c) ==
  IF c \in UpperSet
    THEN LowerLetters[CHOOSE i \in 1..26 : Upper[i] = c]
    ELSE c

toLowerCase(s) == [i \in 1..Len(s) |-> LowerChar(s[i])]

\* the regular-expression class \s
IsSpace(c) == c \in {" ", "\t", "\n"}

\* the regular-expression class [a-z0-9]
IsLowerAlnum(c) == c \in LowerSet \cup Digits

\* the least element of a set of numbers, or d when the set is empty
MinOr(S, d) == IF S = {} THEN d ELSE CHOOSE x \in S : \A y \in S : x <= y

\* the greatest element of a set of numbers, or d when the set is empty
MaxOr(S, d) == IF S = {} THEN d ELSE CHOOSE x \in S : \A y \in S : x >= y

\* the suffix of s that starts at its first character not satisfying P
DropWhileLeft(s, P(_)) ==
  SubSeq(s, MinOr({i \in 1..Len(s) : ~P(s[i])}, Len(s) + 1), Len(s))

\* the prefix of s that ends at its last character not satisfying P
DropWhileRight(s, P(_)) ==
  SubSeq(s, 1, MaxOr({i \in 1..Len(s) : ~P(s[i])}, 0))

\* String.prototype.trim
trim(s) == DropWhileRight(DropWhileLeft(s, IsSpace), IsSpace)

startsWith(s, p) == Len(s) >= Len(p) /\ SubSeq(s, 1, Len(p)) = p

\* String.prototype.indexOf, 1-based; 0 when absent
indexOf(s, p) ==
  MinOr({i \in 1..(Len(s) - Len(p) + 1) : SubSeq(s, i, i + Len(p) - 1) = p}, 0)

\* String.prototype.includes
includes(s, p) == p = <<>> \/ indexOf(s, p) # 0

\* result, with the texts in values computed first: it fixes the order of
\* evaluation and nothing else
After(values, result) == IF values = values THEN result ELSE result

\* the characters of s at the positions kept, in their order
Pick(s, kept) == SubSeq([j \in 1..Len(kept) |-> s[kept[j]]], 1, Len(kept))

\* replace(/\s+/g, r) for a replacement r of one character: of every run of
\* white space the first character stays, as r
ReplaceSpaceRuns(s, r) ==
  Pick([i \in 1..Len(s) |-> IF IsSpace(s[i]) THEN r[1] ELSE s[i]],
       SelectSeq([i \in 1..Len(s) |-> i],
                 LAMBDA i : ~IsSpace(s[i]) \/ i = 1 \/ ~IsSpace(s[i - 1])))

\* replace(/-+/g, "-")
CollapseDashes(s) ==
  Pick(s, SelectSeq([i \in 1..Len(s) |-> i],
                    LAMBDA i : s[i] # "-" \/ i = 1 \/ s[i - 1] # "-"))

\* replace(/^p\s*/, "") for a literal prefix p
StripPrefixAndSpace(s, p) ==
  IF startsWith(s, p)
    THEN DropWhileLeft(SubSeq(s, Len(p) + 1, Len(s)), IsSpace)
    ELSE s

\* the position of the last character of the k-th word, given the positions
\* of the spaces
EndOfWords(s, k, gaps) ==
  IF k = 0 THEN 0
  ELSE IF Cardinality(gaps) < k THEN Len(s)
  ELSE (CHOOSE i \in gaps : Cardinality({j \in gaps : j <= i}) = k) - 1

\* the first k words of a string whose words are separated by single spaces,
\* joined by "-": split(" ").slice(0, k).join("-")
JoinFirstWords(s, k) ==
  SubSeq([i \in 1..Len(s) |-> IF s[i] = " " THEN "-" ELSE s[i]], 1,
         EndOfWords(s, k, {i \in 1..Len(s) : s[i] = " "}))

(***************************************************************************)
(* Regular expressions: a pattern is a sequence of tokens, matched the way *)
(* a backtracking matcher does (every quantifier greedy, alternatives in   *)
(* the order written), without regard to the case of letters               *)
(***************************************************************************)
\* the character classes of the patterns
InClass(class, c) ==
  CASE class = "company" ->  \* [A-Za-z0-9&.,'()\- ]
         c \in LowerSet \cup UpperSet \cup Digits \cup {"&", ".", ",", "'", "(", ")", "-", " "}
    [] class = "role" ->     \* [A-Za-z0-9/&,+().\-\s]
         c \in LowerSet \cup UpperSet \cup Digits \cup {"/", "&", ",", "+", "(", ")", ".", "-"}
           \/ IsSpace(c)
    [] class = "roleTail" -> \* [A-Za-z0-9&.\- ]
         c \in LowerSet \cup UpperSet \cup Digits \cup {"&", ".", "-", " "}
    [] class = "local" ->    \* [A-Z0-9._%+-]
         c \in LowerSet \cup UpperSet \cup Digits \cup {".", "_", "%", "+", "-"}
    [] class = "host" ->     \* [A-Z0-9.-]
         c \in LowerSet \cup UpperSet \cup Digits \cup {".", "-"}
    [] class = "letter" ->   \* [A-Z]
         c \in LowerSet \cup UpperSet
    [] class = "space" ->    \* \s
         IsSpace(c)
    [] class = "any" ->      \* .
         c # "\n"
    [] class = "bar" ->      \* [|,]
         c \in {"|", ","}
    [] class = "colon" ->    \* [:,]
         c \in {":", ","}

\* tokens: one of several literal texts; a run of characters of a class, of a
\* length between min and max, captured as a group or not; an optional group
\* with alternatives; the end of the text
Lit(alts) == [t |-> "lit", alts |-> alts]
Run(class, min, max) == [t |-> "run", class |-> class, min |-> min, max |-> max, group |-> FALSE]
Group(class, min, max) == [t |-> "run", class |-> class, min |-> min, max |-> max, group |-> TRUE]
Opt(alts) == [t |-> "opt", alts |-> alts]
AtEnd == [t |-> "end"]

NoLimit == 1000

NoMatch == [ok |-> FALSE, at |-> 0, groups |-> <<>>]

\* the length of the run of characters of the class that starts at s[i]
RunLength(class, s, i) ==
  MinOr({j \in i..Len(s) : ~InClass(class, s[j])}, Len(s) + 1) - i

\* the match of the pattern that begins at s[i] and that a backtracking
\* matcher finds first: at is the position after it, groups its captures
RECURSIVE MatchFrom(_, _, _)

\* a literal: the first alternative after which the rest matches
MatchLit(alts, rest, s, i, first) ==
  IF first = 0 THEN NoMatch ELSE MatchFrom(rest, s, i + Len(alts[first]))

\* the match r, with the text captured by a group put before its captures
Captured(r, group, text) ==
  IF group THEN [r EXCEPT !.groups = <<text>> \o @] ELSE r

\* a run: the longest length, from min up to the run at s[i] and max, after
\* which the rest matches
MatchRun(tok, rest, s, i, k) ==
  IF k < 0 THEN NoMatch
  ELSE Captured(MatchFrom(rest, s, i + k), tok.group, SubSeq(s, i, i + k - 1))

LongestFit(tok, rest, s, i, n) ==
  MaxOr({k \in tok.min..(IF n < tok.max THEN n ELSE tok.max) :
           MatchFrom(rest, s, i + k).ok}, -1)

\* an optional group: the first alternative with which the rest matches,
\* else the rest alone
MatchOpt(alts, rest, s, i, first) ==
  IF first = 0 THEN MatchFrom(rest, s, i) ELSE MatchFrom(alts[first] \o rest, s, i)

MatchToken(tok, rest, s, i) ==
  CASE tok.t = "lit" ->
         MatchLit(tok.alts, rest, s, i,
                  MinOr({a \in 1..Len(tok.alts) :
                           /\ i + Len(tok.alts[a]) - 1 <= Len(s)
                           /\ toLowerCase(SubSeq(s, i, i + Len(tok.alts[a]) - 1)) = tok.alts[a]
                           /\ MatchFrom(rest, s, i + Len(tok.alts[a])).ok}, 0))
    [] tok.t = "run" ->
         MatchRun(tok, rest, s, i, LongestFit(tok, rest, s, i, RunLength(tok.class, s, i)))
    [] tok.t = "opt" ->
         MatchOpt(tok.alts, rest, s, i,
                  MinOr({a \in 1..Len(tok.alts) : MatchFrom(tok.alts[a] \o rest, s, i).ok}, 0))
    [] tok.t = "end" ->
         IF i = Len(s) + 1 THEN MatchFrom(rest, s, i) ELSE NoMatch

MatchFrom(pattern, s, i) ==
  IF pattern = <<>> THEN [ok |-> TRUE, at |-> i, groups |-> <<>>]
  ELSE MatchToken(Head(pattern), Tail(pattern), s, i)

NotFound == [ok |-> FALSE, from |-> 0, at |-> 0, groups |-> <<>>]

FoundAt(i, m) == [ok |-> TRUE, from |-> i, at |-> m.at, groups |-> m.groups]

SearchFrom(pattern, s, i) ==
  IF i = 0 THEN NotFound ELSE FoundAt(i, MatchFrom(pattern, s, i))

\* String.prototype.match without the g flag: the leftmost match; from is
\* the position of its first character
Search(pattern, s) ==
  SearchFrom(pattern, s, MinOr({i \in 1..(Len(s) + 1) : MatchFrom(pattern, s, i).ok}, 0))

\* s without the text of the match m, before it, or up to its end
Without(s, m) ==
  IF m.ok THEN SubSeq(s, 1, m.from - 1) \o SubSeq(s, m.at, Len(s)) ELSE s

TextBefore(s, m) == IF m.ok THEN SubSeq(s, 1, m.from - 1) ELSE s

TextAfter(s, m) == IF m.ok THEN SubSeq(s, m.at, Len(s)) ELSE s

\* String.prototype.replace(pattern, "") without the g flag
Remove(pattern, s) == Without(s, Search(pattern, s))

\* replace(pattern, "") for a pattern anchored at the start of the text
RemoveAtStart(pattern, s) == TextAfter(s, MatchFrom(pattern, s, 1))

endsWith(s, p) == Len(s) >= Len(p) /\ SubSeq(s, Len(s) - Len(p) + 1, Len(s)) = p

\* the regular-expression class \w
IsWordChar(c) == c \in LowerSet \cup UpperSet \cup Digits \cup {"_"}

\* value.split(" ").length
SplitCount(s) == Cardinality({i \in 1..Len(s) : s[i] = " "}) + 1

(***************************************************************************)
(* Pure helpers of the sync service                                        *)
(***************************************************************************)
\* the character class that cleanValue strips at both ends: white space,
\* quotes and . , : ; | ( ) [ ] { } < > -  (the grave accent, which the
\* source also strips, is outside the alphabet of the modelled messages)
IsEdgeJunk(c) ==
  IsSpace(c) \/ c \in {"\"", "'", ".", ",", ":", ";", "|", "(", ")",
                       "[", "]", "{", "}", "<", ">", "-"}

cleanValue(value) ==
  trim(DropWhileRight(DropWhileLeft(ReplaceSpaceRuns(value, <<" ">>), IsEdgeJunk),
                      IsEdgeJunk))

\* trim, lower-case, strip leading non-alphanumerics and trailing characters
\* outside [a-z0-9.:-]
normalizeDomain(domain) ==
  DropWhileRight(
    DropWhileLeft(toLowerCase(trim(domain)), LAMBDA c : ~IsLowerAlnum(c)),
    LAMBDA c : ~(IsLowerAlnum(c) \/ c \in {".", ":", "-"}))

\* /[A-Z0-9._%+-]+@[A-Z0-9.-]+\.[A-Z]{2,}/i
EMAIL_ADDRESS ==
  <<Run("local", 1, NoLimit), Lit(<< <<"@">> >>), Run("host", 1, NoLimit), Lit(<< <<".">> >>),
    Run("letter", 2, NoLimit)>>

AddressOf(raw, m) ==
  IF m.ok THEN toLowerCase(SubSeq(raw, m.from, m.at - 1)) ELSE toLowerCase(trim(raw))

\* the first address in the value, lower-cased; the trimmed value when it
\* holds none
extractEmailAddress(raw) == AddressOf(raw, Search(EMAIL_ADDRESS, raw))

\* the text up to position next - 1, or all of it when next is 0
UpTo(rest, next) == IF next = 0 THEN rest ELSE SubSeq(rest, 1, next - 1)

SecondPart(normalized, at) ==
  IF at = 0 THEN <<>>
  ELSE UpTo(SubSeq(normalized, at + 1, Len(normalized)),
            indexOf(SubSeq(normalized, at + 1, Len(normalized)), <<"@">>))

PartAfterAt(normalized) == SecondPart(normalized, indexOf(normalized, <<"@">>))

\* normalized.split("@")[1] ?? ""
extractDomainFromEmail(email) == PartAfterAt(extractEmailAddress(email))

CONTROL_PREFIXES == << <<"r","e",":">>, <<"f","w",":">>, <<"f","w","d",":">> >>

THANKS_FOR_APPLYING == <<"t","h","a","n","k","s"," ","f","o","r"," ","a","p","p","l","y","i","n","g">>

DEFAULT_GROUP_KEY == <<"t","h","a","n","k","s","-","f","o","r","-","a","p","p","l","y","i","n","g">>

\* variant: the word after the phrase is kept
StripThanksOnly(s) ==
  LET at == indexOf(s, THANKS_FOR_APPLYING)
  IN IF at = 0 THEN s
     ELSE SubSeq(s, 1, at - 1) \o SubSeq(s, at + Len(THANKS_FOR_APPLYING), Len(s))

\* replace(/thanks for applying(?:\s+(?:to|for))?/i, "") : first occurrence
StripThanksForApplying(s) ==
  LET at == indexOf(s, THANKS_FOR_APPLYING)
      before == SubSeq(s, 1, at - 1)
      after == SubSeq(s, at + Len(THANKS_FOR_APPLYING), Len(s))
      word == DropWhileLeft(after, IsSpace)
  IN IF at = 0 THEN s
     ELSE IF Len(word) < Len(after) /\ startsWith(word, <<"t","o">>)
       THEN before \o SubSeq(word, 3, Len(word))
     ELSE IF Len(word) < Len(after) /\ startsWith(word, <<"f","o","r">>)
       THEN before \o SubSeq(word, 4, Len(word))
     ELSE before \o after

\* replace(/^we got it[:,]?\s*/i, "")
StripWeGotIt(s) ==
  LET p == <<"w","e"," ","g","o","t"," ","i","t">>
      rest == SubSeq(s, Len(p) + 1, Len(s))
      rest2 == IF rest # <<>> /\ Head(rest) \in {":", ","} THEN Tail(rest) ELSE rest
  IN IF startsWith(s, p) THEN DropWhileLeft(rest2, IsSpace) ELSE s

normalizeSubjectForGroup(subject) ==
  LET s0 == toLowerCase(trim(subject))
      s1 == StripPrefixAndSpace(s0, CONTROL_PREFIXES[1])
      s2 == StripPrefixAndSpace(s1, CONTROL_PREFIXES[2])
      s3 == StripPrefixAndSpace(s2, CONTROL_PREFIXES[3])
      s4 == StripThanksForApplying(StripWeGotIt(s3))
      s5 == [i \in 1..Len(s4) |->
               IF IsLowerAlnum(s4[i]) \/ IsSpace(s4[i]) THEN s4[i] ELSE " "]
      normalized == trim(ReplaceSpaceRuns(s5, <<" ">>))
  IN IF normalized = <<>> THEN DEFAULT_GROUP_KEY
     ELSE JoinFirstWords(normalized, MaxKeyWords)

normalizeGroupSubjectKey(value) ==
  LET s0 == toLowerCase(cleanValue(value))
      s1 == [i \in 1..Len(s0) |->
               IF IsLowerAlnum(s0[i]) \/ IsSpace(s0[i]) \/ s0[i] = "-"
                 THEN s0[i] ELSE " "]
      s2 == CollapseDashes(ReplaceSpaceRuns(s1, <<"-">>))
      normalized == DropWhileRight(DropWhileLeft(s2, LAMBDA c : c = "-"),
                                   LAMBDA c : c = "-")
  IN IF normalized = <<>> THEN DEFAULT_GROUP_KEY ELSE normalized

ApplicationStatuses ==
  {"submitted", "received", "rejected", "interview", "assessment", "offer", "withdrawn"}

\* variant: any status the AI result holds is taken
toStatusOfAi(candidate, fallback) == IF candidate # "null" THEN candidate ELSE fallback

\* candidate is "null" for an absent value; the AI schema only lets through
\* lower-case enum members, so cleanValue/toLowerCase leave them as they are
toApplicationStatus(candidate, fallback) ==
  IF candidate \in ApplicationStatuses THEN candidate ELSE fallback

(***************************************************************************)
(* Company and role candidates                                             *)
(***************************************************************************)
UNKNOWN_ROLE == <<"u","n","k","n","o","w","n","-","r","o","l","e">>
UNKNOWN_COMPANY == <<"U","n","k","n","o","w","n"," ","C","o","m","p","a","n","y">>

ATS_DOMAINS ==
  { <<"s","m","a","r","t","r","e","c","r","u","i","t","e","r","s",".","c","o","m">>, <<"g","r","e","e","n","h","o","u","s","e",".","i","o">>, <<"l","e","v","e","r",".","c","o">>, <<"w","o","r","k","d","a","y",".","c","o","m">>,
    <<"m","y","w","o","r","k","d","a","y","j","o","b","s",".","c","o","m">>, <<"i","c","i","m","s",".","c","o","m">>, <<"t","a","l","e","o",".","n","e","t">>, <<"j","o","b","v","i","t","e",".","c","o","m">>,
    <<"s","u","c","c","e","s","s","f","a","c","t","o","r","s",".","c","o","m">>, <<"b","a","m","b","o","o","h","r",".","c","o","m">>, <<"r","e","c","r","u","i","t","e","e",".","c","o","m">>, <<"w","o","r","k","a","b","l","e",".","c","o","m">>,
    <<"a","p","p","l","y","t","o","j","o","b",".","c","o","m">>, <<"m","y","w","o","r","k","d","a","y",".","c","o","m">>, <<"u","l","t","i","p","r","o",".","c","o","m">>, <<"p","a","y","l","o","c","i","t","y",".","c","o","m">>,
    <<"s","i","l","k","r","o","a","d",".","c","o","m">>, <<"c","o","r","n","e","r","s","t","o","n","e",".","c","o","m">>, <<"k","e","n","e","x","a",".","c","o","m">>, <<"b","r","a","s","s","r","i","n","g",".","c","o","m">> }

GENERIC_DISPLAY_NAMES ==
  { <<"n","o","r","e","p","l","y">>, <<"n","o"," ","r","e","p","l","y">>, <<"n","o","-","r","e","p","l","y">>, <<"n","o","t","i","f","i","c","a","t","i","o","n","s">>, <<"n","o","t","i","f","i","c","a","t","i","o","n">>,
    <<"j","o","b","s">>, <<"r","e","c","r","u","i","t","i","n","g">>, <<"c","a","r","e","e","r","s">>, <<"s","u","p","p","o","r","t">>, <<"h","r">>,
    <<"t","a","l","e","n","t"," ","a","c","q","u","i","s","i","t","i","o","n">>, <<"t","a","l","e","n","t">>, <<"h","i","r","i","n","g"," ","t","e","a","m">>, <<"d","o"," ","n","o","t"," ","r","e","p","l","y">>,
    <<"d","o","n","o","t","r","e","p","l","y">> }

ROLE_HINTS ==
  { <<"e","n","g","i","n","e","e","r">>, <<"d","e","v","e","l","o","p","e","r">>, <<"m","a","n","a","g","e","r">>, <<"d","i","r","e","c","t","o","r">>, <<"a","r","c","h","i","t","e","c","t">>,
    <<"a","n","a","l","y","s","t">>, <<"s","c","i","e","n","t","i","s","t">>, <<"s","p","e","c","i","a","l","i","s","t">>, <<"i","n","t","e","r","n">>, <<"l","e","a","d">>, <<"h","e","a","d">>,
    <<"p","r","i","n","c","i","p","a","l">>, <<"c","o","n","s","u","l","t","a","n","t">>, <<"d","e","s","i","g","n","e","r">>, <<"a","d","m","i","n","i","s","t","r","a","t","o","r">>, <<"q","a">>,
    <<"q","u","a","l","i","t","y"," ","a","s","s","u","r","a","n","c","e">>, <<"s","r","e">>, <<"d","e","v","o","p","s">>, <<"p","r","o","d","u","c","t">>, <<"d","a","t","a">>,
    <<"r","e","s","e","a","r","c","h">>, <<"p","o","s","i","t","i","o","n">>, <<"r","o","l","e">> }

COMPANY_HINTS ==
  { <<"i","n","c">>, <<"c","o","r","p">>, <<"l","l","c">>, <<"l","t","d">>, <<"g","r","o","u","p">>, <<"l","a","b","s">>, <<"l","a","b">>, <<"t","e","c","h">>,
    <<"t","e","c","h","n","o","l","o","g","i","e","s">>, <<"s","y","s","t","e","m","s">>, <<"s","o","l","u","t","i","o","n","s">>, <<"a","n","a","l","y","t","i","c","s">>, <<"s","o","f","t","w","a","r","e">>,
    <<"a","i">>, <<"s","e","c","u","r","i","t","y">>, <<"m","e","d","i","a">>, <<"h","e","a","l","t","h">> }

INVALID_TEXT_FRAGMENTS ==
  { <<"h","a","s"," ","b","e","e","n"," ","r","e","c","e","i","v","e","d">>, <<"w","e"," ","w","i","l","l"," ","r","e","v","i","e","w">>, <<"i","f"," ","w","e"," ","s","e","e"," ","a"," ","m","a","t","c","h">>,
    <<"t","h","a","n","k"," ","y","o","u"," ","f","o","r"," ","a","p","p","l","y","i","n","g">>, <<"t","h","a","n","k","s"," ","f","o","r"," ","a","p","p","l","y","i","n","g">>, <<"a","p","p","l","i","c","a","t","i","o","n"," ","r","e","c","e","i","v","e","d">>,
    <<"r","e","c","e","i","v","e","d"," ","y","o","u","r"," ","a","p","p","l","i","c","a","t","i","o","n">>, <<"k","e","e","p"," ","y","o","u"," ","u","p","d","a","t","e","d">> }

Spaces == Run("space", 1, NoLimit)
MaybeSpaces == Run("space", 0, NoLimit)

\* /\s+(?:careers?|jobs?|hiring|recruiting|team)$/i
TrailingTeamWord ==
  <<Spaces,
    Lit(<<<<"c","a","r","e","e","r","s">>, <<"c","a","r","e","e","r">>, <<"j","o","b","s">>, <<"j","o","b">>, <<"h","i","r","i","n","g">>, <<"r","e","c","r","u","i","t","i","n","g">>, <<"t","e","a","m">>>>),
    AtEnd>>

\* /\s+(?:inc|corp|llc|ltd|co)\.?$/i
TrailingLegalForm ==
  <<Spaces, Lit(<<<<"i","n","c">>, <<"c","o","r","p">>, <<"l","l","c">>, <<"l","t","d">>, <<"c","o">>>>),
    Opt(<< <<Lit(<<<<".">>>>)>> >>), AtEnd>>

\* s with the text of the match m trimmed
WithMatchTrimmed(s, m) ==
  IF m.ok
    THEN SubSeq(s, 1, m.from - 1) \o trim(SubSeq(s, m.from, m.at - 1))
    ELSE s

\* the legal form is replaced by match.trim(): the white space before it goes
TrimLegalForm(withoutTeam) ==
  WithMatchTrimmed(withoutTeam, Search(TrailingLegalForm, withoutTeam))

sanitizeCompanyName(value) ==
  TrimLegalForm(Remove(TrailingTeamWord, cleanValue(value)))

sanitizeRoleTitle(value) == cleanValue(value)

isAtsDomain(domain) == toLowerCase(trim(domain)) \in ATS_DOMAINS

hasInvalidFragment(value) ==
  \E fragment \in INVALID_TEXT_FRAGMENTS : includes(toLowerCase(value), fragment)

\* /^at\s+/
StartsWithAt(s) == MatchFrom(<<Lit(<<<<"a","t">>>>), Spaces>>, s, 1).ok

IsRoleCandidate(candidate) ==
  /\ candidate # <<>>
  /\ candidate # UNKNOWN_ROLE
  /\ Len(candidate) <= 90
  /\ SplitCount(candidate) <= 12
  /\ ~StartsWithAt(candidate)
  /\ \A i \in 1..Len(candidate) : candidate[i] \notin {".", "!", "?"}
  /\ ~hasInvalidFragment(candidate)
  /\ \E hint \in ROLE_HINTS : includes(candidate, hint)

looksLikeRoleTitle(value) == IsRoleCandidate(toLowerCase(sanitizeRoleTitle(value)))

IsCompanyCandidate(candidate, lowered) ==
  /\ candidate # <<>>
  /\ Len(candidate) <= 90
  /\ SplitCount(candidate) <= 10
  /\ ~StartsWithAt(lowered)
  /\ ~hasInvalidFragment(lowered)
  /\ ~includes(candidate, <<"@">>)
  /\ \/ includes(candidate, <<".">>)
     \/ ~(/\ \E hint \in ROLE_HINTS : includes(lowered, hint)
          /\ ~(\E hint \in COMPANY_HINTS : includes(lowered, hint)))

HasCompanyShape(candidate) == IsCompanyCandidate(candidate, toLowerCase(candidate))

looksLikeCompanyName(value) == HasCompanyShape(sanitizeCompanyName(value))

TrailingNouns(s, lowered) ==
  {w \in {<<"p","o","s","i","t","i","o","n">>, <<"r","o","l","e">>, <<"j","o","b">>} :
     /\ endsWith(lowered, w)
     /\ (Len(s) = Len(w) \/ ~IsWordChar(s[Len(s) - Len(w)]))}

WithoutNoun(s, hits) ==
  IF hits = {} THEN trim(s)
  ELSE trim(SubSeq(s, 1, Len(s) - Len(CHOOSE w \in hits : TRUE)))

\* /\b(?:position|role|job)\b$/i removed, then trim()
StripTrailingNoun(s) == WithoutNoun(s, TrailingNouns(s, toLowerCase(s)))

\* /^(.*)\s+at\s+([A-Za-z0-9&.,'()\- ]{2,80})$/i
WithAt ==
  <<Group("any", 0, NoLimit), Spaces, Lit(<<<<"a","t">>>>), Spaces, Group("company", 2, 80), AtEnd>>

\* the subject cleaned, without its reply and forward prefixes
WithoutMailPrefixes(subject) ==
  trim(RemoveAtStart(<<Lit(<<<<"f","w","d",":">>>>), MaybeSpaces>>,
         RemoveAtStart(<<Lit(<<<<"f","w",":">>>>), MaybeSpaces>>,
           RemoveAtStart(<<Lit(<<<<"r","e",":">>>>), MaybeSpaces>>, cleanValue(subject)))))

\* without the thanks phrase at its start and the "to", "for", "the" after it
WithoutThanks(n3) ==
  After(n3, trim(RemoveAtStart(<<Lit(<<<<"t","h","e">>>>), Spaces>>,
    trim(RemoveAtStart(<<Lit(<<<<"t","o">>, <<"f","o","r">>>>), Spaces>>,
      trim(RemoveAtStart(
             <<Lit(<<<<"t","h","a","n","k","s"," ","f","o","r"," ","y","o","u","r"," ","i","n","t","e","r","e","s","t">>, <<"t","h","a","n","k"," ","y","o","u"," ","f","o","r"," ","y","o","u","r"," ","i","n","t","e","r","e","s","t">>>>),
               Opt(<< <<Spaces, Lit(<<<<"i","n">>>>)>> >>)>>,
             RemoveAtStart(<<Lit(<<<<"t","h","a","n","k","s"," ","f","o","r"," ","a","p","p","l","y","i","n","g">>, <<"t","h","a","n","k"," ","y","o","u"," ","f","o","r"," ","a","p","p","l","y","i","n","g">>>>)>>, n3))))))))

\* /[|,]\s*thank.*$/i cut off, then trim()
WithoutThanksTail(n7) ==
  After(n7, trim(TextBefore(n7, Search(<<Run("bar", 1, 1), MaybeSpaces,
                                         Lit(<<<<"t","h","a","n","k">>>>),
                                         Run("any", 0, NoLimit), AtEnd>>, n7))))

FocusedCandidates(withAt, roleCandidate, companyCandidate) ==
  IF withAt.ok /\ withAt.groups[1] # <<>>
    THEN [roleCandidate |-> sanitizeRoleTitle(StripTrailingNoun(withAt.groups[1])),
          companyCandidate |-> sanitizeCompanyName(withAt.groups[2])]
  ELSE IF looksLikeRoleTitle(roleCandidate)
    THEN [roleCandidate |-> roleCandidate, companyCandidate |-> <<>>]
  ELSE [roleCandidate |-> <<>>,
        companyCandidate |-> IF looksLikeCompanyName(companyCandidate)
                               THEN companyCandidate ELSE <<>>]

CandidatesOf(normalized) ==
  After(normalized,
        FocusedCandidates(MatchFrom(WithAt, normalized, 1),
                          sanitizeRoleTitle(StripTrailingNoun(normalized)),
                          sanitizeCompanyName(normalized)))

parseFocusedSubjectCandidates(subject) ==
  CandidatesOf(WithoutThanksTail(WithoutThanks(WithoutMailPrefixes(subject))))

\* the clean-up of a subject capture: /\s+for\s+the\s+position.*$/i,
\* /\s+\|\s+.*$/ and /\s+-\s+.*$/ are cut off
CutAt(pattern, s) == TextBefore(s, Search(pattern, s))

CleanSubjectCapture(s) ==
  trim(CutAt(<<Spaces, Lit(<<<<"-">>>>), Spaces>>,
         CutAt(<<Spaces, Lit(<<<<"|">>>>), Spaces>>,
           CutAt(<<Spaces, Lit(<<<<"f","o","r">>>>), Spaces, Lit(<<<<"t","h","e">>>>), Spaces,
                   Lit(<<<<"p","o","s","i","t","i","o","n">>>>)>>, s))))

Thanks == Lit(<<<<"t","h","a","n","k","s">>, <<"t","h","a","n","k"," ","y","o","u">>>>)

SUBJECT_COMPANY_PATTERNS ==
  << <<Thanks, Lit(<<<<" ","f","o","r"," ","a","p","p","l","y","i","n","g">>>>), Spaces, Lit(<<<<"t","o">>, <<"f","o","r">>>>), Spaces,
       Group("company", 2, 90)>>,
     <<Thanks, Lit(<<<<" ","f","o","r"," ","y","o","u","r"," ","i","n","t","e","r","e","s","t">>>>), Opt(<< <<Spaces, Lit(<<<<"i","n">>>>)>> >>), Spaces,
       Group("company", 2, 90)>>,
     <<Lit(<<<<"y","o","u","r"," ","a","p","p","l","i","c","a","t","i","o","n">>>>), Spaces, Lit(<<<<"t","o">>, <<"f","o","r">>>>), Spaces,
       Group("company", 2, 90)>>,
     <<Lit(<<<<"a","p","p","l","i","c","a","t","i","o","n"," ","r","e","c","e","i","v","e","d">>>>), Spaces, Lit(<<<<"b","y">>, <<"f","r","o","m">>>>), Spaces,
       Group("company", 2, 90)>> >>

CompanyOfCapture(m, clean(_)) ==
  IF m.ok THEN sanitizeCompanyName(clean(m.groups[1])) ELSE <<>>

CapturedCompany(pattern, text, clean(_)) ==
  CompanyOfCapture(Search(pattern, text), clean)

IsGoodCompany(candidate) == Len(candidate) >= 2 /\ looksLikeCompanyName(candidate)

CompanyOfPattern(patterns, text, clean(_), first) ==
  IF first = 0 THEN <<>> ELSE CapturedCompany(patterns[first], text, clean)

\* the candidate of the first pattern, in the order given, whose capture
\* passes the test; "" when there is none
FirstCompanyCapture(patterns, text, clean(_)) ==
  CompanyOfPattern(patterns, text, clean,
    MinOr({p \in 1..Len(patterns) :
             IsGoodCompany(CapturedCompany(patterns[p], text, clean))}, 0))

FocusedOrCaptured(subject, focused) ==
  IF focused.companyCandidate # <<>> /\ looksLikeCompanyName(focused.companyCandidate)
    THEN focused.companyCandidate
    ELSE FirstCompanyCapture(SUBJECT_COMPANY_PATTERNS, subject, CleanSubjectCapture)

extractCompanyFromSubject(subject) ==
  FocusedOrCaptured(subject, parseFocusedSubjectCandidates(subject))

\* toLowerCase().replace(/[^a-z0-9]/g, "")
normalizeCompare(value) == SelectSeq(toLowerCase(value), IsLowerAlnum)

isCompanyMentionedInSubject(subject, companyName) ==
  /\ Len(normalizeCompare(companyName)) >= 3
  /\ includes(normalizeCompare(subject), normalizeCompare(companyName))

SenderCompany(normalized, generic, senderDomain) ==
  IF normalized = <<>> \/ generic THEN <<>>
  ELSE IF senderDomain # <<>> /\ isAtsDomain(senderDomain)
    THEN IF ~generic /\ ~looksLikeRoleTitle(normalized) THEN normalized ELSE <<>>
  ELSE IF ~looksLikeCompanyName(normalized) THEN <<>>
  ELSE normalized

SenderCompanyOf(normalized, senderDomain) ==
  SenderCompany(normalized, toLowerCase(normalized) \in GENERIC_DISPLAY_NAMES, senderDomain)

extractSenderCompany(displayName, senderDomain) ==
  SenderCompanyOf(sanitizeCompanyName(displayName), senderDomain)

MAX_BODY_FOR_FALLBACK == 5000

BODY_COMPANY_PATTERNS ==
  << <<Thanks, Spaces, Lit(<<<<"f","o","r">>>>), Spaces, Lit(<<<<"a","p","p","l","y","i","n","g">>>>),
       Opt(<< <<Spaces, Lit(<<<<"t","o">>>>)>>, <<Spaces, Lit(<<<<"f","o","r">>>>)>> >>), Spaces,
       Group("company", 2, 90)>>,
     <<Lit(<<<<"r","e","c","e","i","v","e","d">>>>), Spaces, Lit(<<<<"y","o","u","r">>>>), Spaces, Lit(<<<<"a","p","p","l","i","c","a","t","i","o","n">>>>),
       Opt(<< <<Spaces, Lit(<<<<"f","o","r">>>>)>>, <<Spaces, Lit(<<<<"t","o">>>>)>> >>), Spaces,
       Group("company", 2, 90)>>,
     <<Lit(<<<<"a","t">>>>), Spaces, Group("company", 2, 90), Spaces,
       Lit(<<<<"w","e">>, <<"o","u","r"," ","t","e","a","m">>>>)>> >>

Unchanged(s) == s

extractCompanyFromBody(text) ==
  IF text = <<>> THEN <<>>
  ELSE FirstCompanyCapture(BODY_COMPANY_PATTERNS,
                           SubSeq(text, 1, IF Len(text) < MAX_BODY_FOR_FALLBACK
                                             THEN Len(text) ELSE MAX_BODY_FOR_FALLBACK),
                           Unchanged)

(***************************************************************************)
(* The e-mail parser and the company identity                              *)
(***************************************************************************)
\* String.prototype.toUpperCase on one character
UpperChar(c) ==
  IF c \in LowerSet
    THEN Upper[CHOOSE i \in 1..26 : LowerLetters[i] = c]
    ELSE c

IsQuote(c) == c = "\""

DisplayNameIn(cleaned) ==
  IF cleaned = <<>> THEN <<>>
  ELSE trim(ReplaceSpaceRuns(
              DropWhileRight(DropWhileLeft(UpTo(cleaned, indexOf(cleaned, <<"<">>)), IsQuote),
                             IsQuote),
              <<" ">>))

\* the text before the first "<" (or the whole value), without double quotes
\* at its ends, white space collapsed, trimmed
extractDisplayName(raw) == DisplayNameIn(trim(raw))

\* /\s+at\s+[A-Za-z0-9&.\- ]{2,}$/i
TrailingAtCompany ==
  <<Spaces, Lit(<<<<"a","t">>>>), Spaces, Run("roleTail", 2, NoLimit), AtEnd>>

IsRoleEdgeJunk(c) == IsSpace(c) \/ c \in {"-", ":", "|"}

\* slice(0, n)
FirstChars(s, n) == SubSeq(s, 1, IF Len(s) < n THEN Len(s) ELSE n)

normalizeRoleCandidate(value) ==
  FirstChars(trim(CutAt(TrailingAtCompany,
                        DropWhileRight(DropWhileLeft(ReplaceSpaceRuns(value, <<" ">>),
                                                     IsRoleEdgeJunk),
                                       IsRoleEdgeJunk))),
             80)

RoleGroup == Group("role", 3, 80)

ROLE_PATTERNS ==
  << <<Lit(<<<<"a","p","p","l","i","c","a","t","i","o","n">>>>),
       Opt(<< <<Spaces, Lit(<<<<"f","o","r">>>>)>>, <<Spaces, Lit(<<<<"t","o">>>>)>> >>), Spaces, RoleGroup>>,
     <<Lit(<<<<"i","n","t","e","r","v","i","e","w">>>>), Spaces, Lit(<<<<"f","o","r">>>>), Spaces, RoleGroup>>,
     <<Lit(<<<<"a","s","s","e","s","s","m","e","n","t">>>>), Spaces, Lit(<<<<"f","o","r">>>>), Spaces, RoleGroup>>,
     <<Lit(<<<<"o","f","f","e","r">>>>), Spaces, Lit(<<<<"f","o","r">>>>), Spaces, RoleGroup>>,
     <<Lit(<<<<"p","o","s","i","t","i","o","n">>>>),
       Opt(<< <<Spaces, Lit(<<<<"o","f">>>>)>>, <<MaybeSpaces, Lit(<<<<":">>>>)>>,
              <<Spaces, Lit(<<<<"i","s">>>>)>> >>), Spaces, RoleGroup>>,
     <<Lit(<<<<"r","o","l","e">>>>),
       Opt(<< <<Spaces, Lit(<<<<"o","f">>>>)>>, <<MaybeSpaces, Lit(<<<<":">>>>)>>,
              <<Spaces, Lit(<<<<"i","s">>>>)>> >>), Spaces, RoleGroup>>,
     <<Lit(<<<<"f","o","r">>>>), Spaces, Lit(<<<<"t","h","e">>>>), Spaces, RoleGroup, Spaces,
       Lit(<<<<"p","o","s","i","t","i","o","n">>, <<"r","o","l","e">>>>)>> >>

RoleOfCapture(m) == IF m.ok THEN normalizeRoleCandidate(m.groups[1]) ELSE <<>>

CapturedRole(pattern, combined) == RoleOfCapture(Search(pattern, combined))

RoleOfPattern(combined, first) ==
  IF first = 0 THEN UNKNOWN_ROLE ELSE CapturedRole(ROLE_PATTERNS[first], combined)

\* the candidate of the first pattern whose capture has three characters
FirstRole(combined) ==
  RoleOfPattern(combined,
    MinOr({p \in 1..Len(ROLE_PATTERNS) :
             Len(CapturedRole(ROLE_PATTERNS[p], combined)) >= 3}, 0))

extractRole(subject, body) ==
  FirstRole(ReplaceSpaceRuns(subject \o <<" ">> \o body, <<" ">>))

Capitalised(firstLabel) ==
  [i \in 1..Len(firstLabel) |->
     IF firstLabel[i] = "-" THEN " "
     ELSE IF i = 1 \/ firstLabel[i - 1] = "-" THEN UpperChar(firstLabel[i])
     ELSE firstLabel[i]]

\* the first label of the domain, its dash-separated parts capitalised and
\* joined by spaces
inferCompanyNameFromDomain(domain) ==
  IF domain = <<>> THEN UNKNOWN_COMPANY
  ELSE Capitalised(UpTo(domain, indexOf(domain, <<".">>)))

\* the company domain of a sender-derived company
resolveSenderDomain(normalizedSenderDomain, normalizedAiCompanyDomain) ==
  IF isAtsDomain(normalizedSenderDomain)
    THEN IF normalizedAiCompanyDomain # <<>> THEN normalizedAiCompanyDomain
         ELSE normalizeDomain(inferCompanyNameFromDomain(normalizedSenderDomain))
    ELSE IF normalizedSenderDomain # <<>> THEN normalizedSenderDomain
         ELSE normalizedAiCompanyDomain

CompanyIdentity(subject, normalizedSenderDomain, aiOrSender, subjectCandidate,
                subjectDerivedRegex, aiCompanyName, senderDerived, resolvedDomain,
                contentDerivedRegex) ==
  IF subjectCandidate # <<>> /\ looksLikeCompanyName(subjectCandidate)
    THEN [companyName |-> subjectCandidate, companyDomain |-> aiOrSender,
          source |-> "subject"]
  ELSE IF subjectDerivedRegex # <<>>
    THEN [companyName |-> subjectDerivedRegex, companyDomain |-> aiOrSender,
          source |-> "subject"]
  ELSE IF /\ aiCompanyName # <<>>
          /\ looksLikeCompanyName(aiCompanyName)
          /\ isCompanyMentionedInSubject(subject, aiCompanyName)
    THEN [companyName |-> aiCompanyName, companyDomain |-> aiOrSender,
          source |-> "subject"]
  ELSE IF senderDerived # <<>>
    THEN [companyName |-> senderDerived,
          companyDomain |-> IF resolvedDomain # <<>> THEN resolvedDomain
                            ELSE normalizedSenderDomain,
          source |-> "sender"]
  ELSE IF contentDerivedRegex # <<>>
    THEN [companyName |-> contentDerivedRegex, companyDomain |-> aiOrSender,
          source |-> "content"]
  ELSE IF aiCompanyName # <<>>
    THEN [companyName |-> aiCompanyName, companyDomain |-> aiOrSender,
          source |-> "content"]
  ELSE IF normalizedSenderDomain # <<>>
    THEN [companyName |-> inferCompanyNameFromDomain(normalizedSenderDomain),
          companyDomain |-> normalizedSenderDomain, source |-> "domain"]
  ELSE [companyName |-> UNKNOWN_COMPANY, companyDomain |-> <<>>, source |-> "domain"]

CompanyIdentityOf(input, normalizedSenderDomain, normalizedAiCompanyDomain) ==
  After(<<normalizedSenderDomain, normalizedAiCompanyDomain>>,
    CompanyIdentity(input.subject, normalizedSenderDomain,
                    IF normalizedAiCompanyDomain # <<>> THEN normalizedAiCompanyDomain
                    ELSE normalizedSenderDomain,
                    sanitizeCompanyName(input.subjectCompanyCandidate),
                    extractCompanyFromSubject(input.subject),
                    sanitizeCompanyName(input.aiCompanyName),
                    extractSenderCompany(input.fromDisplayName, normalizedSenderDomain),
                    resolveSenderDomain(normalizedSenderDomain, normalizedAiCompanyDomain),
                    extractCompanyFromBody(input.body)))

resolveCompanyIdentity(input) ==
  CompanyIdentityOf(input, normalizeDomain(input.senderDomain),
                    normalizeDomain(input.aiCompanyDomain))

FirstRoleTitle(aiCandidate, subjectCandidate, parsedCandidate) ==
  IF aiCandidate # <<>> /\ looksLikeRoleTitle(aiCandidate) THEN aiCandidate
  ELSE IF subjectCandidate # <<>> /\ looksLikeRoleTitle(subjectCandidate)
    THEN subjectCandidate
  ELSE IF parsedCandidate # <<>> /\ looksLikeRoleTitle(parsedCandidate)
    THEN parsedCandidate
  ELSE UNKNOWN_ROLE

\* the first of the three candidates that looks like a role title
getRoleTitle(aiRole, subjectRole, parsedRole) ==
  FirstRoleTitle(sanitizeRoleTitle(aiRole), sanitizeRoleTitle(subjectRole),
                 sanitizeRoleTitle(parsedRole))

(***************************************************************************)
(* Rule-based classifier                                                   *)
(***************************************************************************)
\* the five rules, each with its keyword list
RULE_DEFINITIONS == <<
  [status |-> "rejected", keywords |-> <<
     <<"u","n","f","o","r","t","u","n","a","t","e","l","y">>, <<"n","o","t"," ","m","o","v","i","n","g"," ","f","o","r","w","a","r","d">>, <<"o","t","h","e","r"," ","c","a","n","d","i","d","a","t","e","s">>,
     <<"r","e","g","r","e","t"," ","t","o"," ","i","n","f","o","r","m">>, <<"w","e"," ","r","e","g","r","e","t">>, <<"n","o","t"," ","s","e","l","e","c","t","e","d">>, <<"d","e","c","l","i","n","e","d">>,
     <<"r","e","j","e","c","t","e","d">>, <<"p","o","s","i","t","i","o","n"," ","h","a","s"," ","b","e","e","n"," ","f","i","l","l","e","d">> >>],
  [status |-> "interview", keywords |-> <<
     <<"i","n","t","e","r","v","i","e","w">>, <<"s","c","h","e","d","u","l","e">>, <<"a","v","a","i","l","a","b","i","l","i","t","y">>, <<"m","e","e","t"," ","w","i","t","h">> >>],
  [status |-> "assessment", keywords |-> <<
     <<"a","s","s","i","g","n","m","e","n","t">>, <<"t","e","s","t">>, <<"c","o","d","i","n","g"," ","c","h","a","l","l","e","n","g","e">>, <<"a","s","s","e","s","s","m","e","n","t">> >>],
  [status |-> "offer", keywords |-> <<
     <<"o","f","f","e","r">>, <<"c","o","m","p","e","n","s","a","t","i","o","n">>, <<"w","e","l","c","o","m","e"," ","a","b","o","a","r","d">>, <<"j","o","i","n","i","n","g">>, <<"a","p","p","r","o","v","e","d">>,
     <<"a","c","c","e","p","t","e","d">>, <<"s","e","l","e","c","t","e","d">>, <<"m","o","v","i","n","g"," ","f","o","r","w","a","r","d"," ","w","i","t","h"," ","y","o","u","r"," ","a","p","p","l","i","c","a","t","i","o","n">>,
     <<"p","l","e","a","s","e","d"," ","t","o"," ","i","n","f","o","r","m">> >>],
  [status |-> "received", keywords |-> <<
     <<"a","p","p","l","i","c","a","t","i","o","n"," ","r","e","c","e","i","v","e","d">>, <<"t","h","a","n","k"," ","y","o","u"," ","f","o","r"," ","a","p","p","l","y","i","n","g">>, <<"t","h","a","n","k","s"," ","f","o","r"," ","a","p","p","l","y","i","n","g">>,
     <<"a","p","p","l","i","c","a","t","i","o","n"," ","s","u","b","m","i","t","t","e","d">>, <<"w","e"," ","r","e","c","e","i","v","e","d">> >>] >>

\* variant: the offer rule is consulted before the interview rule
RULES_OFFER_BEFORE_INTERVIEW ==
  <<RULE_DEFINITIONS[1], RULE_DEFINITIONS[4], RULE_DEFINITIONS[2],
    RULE_DEFINITIONS[3], RULE_DEFINITIONS[5]>>

\* variant: the rejected rule is consulted last
RULES_REJECTED_LAST ==
  <<RULE_DEFINITIONS[2], RULE_DEFINITIONS[3], RULE_DEFINITIONS[4],
    RULE_DEFINITIONS[5], RULE_DEFINITIONS[1]>>

\* the rules in the order of the array
RULES == RULE_DEFINITIONS

containsKeyword(content, keyword) == includes(content, keyword)

RuleMatches(rule, combined) ==
  \E k \in 1..Len(rule.keywords) : containsKeyword(combined, rule.keywords[k])

\* rule.keywords.find(...): the first keyword of the rule found in the text
FirstKeyword(rule, combined) ==
  LET found == {k \in 1..Len(rule.keywords) : containsKeyword(combined, rule.keywords[k])}
  IN rule.keywords[CHOOSE k \in found : \A j \in found : k <= j]

\* variant: no match counts as an exact phrase
keywordConfidence(isExactPhrase) == 70

\* isExactPhrase ? 0.9 : 0.7, in percent
phraseConfidence(isExactPhrase) == IF isExactPhrase THEN 90 ELSE 70

\* needsReview: confidence < 0.75, in percent
ReviewThreshold == 75

\* confidence in percent
classifyEmailContent(subject, bodyText) ==
  LET combined == toLowerCase(subject \o <<"\n">> \o bodyText)
      hits == {r \in 1..Len(RULES) : RuleMatches(RULES[r], combined)}
      first == CHOOSE r \in hits : \A q \in hits : r <= q
      match == FirstKeyword(RULES[first], combined)
      confidence == phraseConfidence(includes(combined, match))
  IN IF hits = {}
       THEN [predictedStatus |-> "unclassified", confidence |-> 0,
             isConfirmation |-> FALSE, needsReview |-> TRUE]
       ELSE [predictedStatus |-> RULES[first].status, confidence |-> confidence,
             isConfirmation |-> (RULES[first].status = "received"),
             needsReview |-> confidence < ReviewThreshold]

(***************************************************************************)
(* Focus terms                                                             *)
(***************************************************************************)
FOCUS_FALLBACK == <<"t","h","a","n","k","s"," ","f","o","r"," ","a","p","p","l","y","i","n","g">>
FOCUS_ALTERNATE == <<"t","h","a","n","k"," ","y","o","u"," ","f","o","r"," ","a","p","p","l","y","i","n","g">>
FOCUS_INTEREST == <<"t","h","a","n","k"," ","y","o","u"," ","f","o","r"," ","y","o","u","r"," ","i","n","t","e","r","e","s","t">>
FOCUS_GENERIC == <<"t","h","a","n","k"," ","y","o","u"," ","f","o","r">>

\* config.SYNC_SUBJECT_FOCUS is empty by default: the fall-back term and its
\* three variants
getFocusTerms == {FOCUS_FALLBACK, FOCUS_ALTERNATE, FOCUS_INTEREST, FOCUS_GENERIC}

subjectContainsFocus(subject, focusTerms) ==
  LET normalized == toLowerCase(cleanValue(subject))
  IN \E focus \in focusTerms : includes(normalized, toLowerCase(cleanValue(focus)))

containsFocus(subject, body, focusTerms) ==
  \/ subjectContainsFocus(subject, focusTerms)
  \/ LET normalizedBody == toLowerCase(cleanValue(body))
     IN \E focus \in focusTerms :
          includes(normalizedBody, toLowerCase(cleanValue(focus)))

\* variant: the denylist is empty
NO_NOISE_DOMAINS == {}

NOISE_DOMAINS == { <<"g","m","a","i","l",".","c","o","m">>, <<"g","o","o","g","l","e",".","c","o","m">>, <<"o","u","t","l","o","o","k",".","c","o","m">>, <<"p","a","y","p","a","l",".","c","o","m">> }

\* variant: every AI result counts as confident
shouldAlwaysUseAi(confidence) == TRUE

shouldUseAi(confidence) == confidence >= OLLAMA_MIN_CONFIDENCE

(***************************************************************************)
(* The mailbox: the messages the provider can hold                         *)
(***************************************************************************)
MsgIds == {"m1", "m2", "m3"}

\* a message of a consumer webmail sender that carries a focus phrase
NoiseIds == {"m4"}

AllMsgIds == MsgIds \cup NoiseIds

\* internalDate of a message whose timestamp the provider reports as invalid
NaN == -1

\* each message as the provider returns it: From header, subject, plain-text
\* body and internalDate
Messages ==
  [m \in AllMsgIds |->
     CASE m = "m1" -> [from |-> <<"j","o","b","s","@","a","c","m","e",".","c","o","m">>,
                       subject |-> <<"T","h","a","n","k","s"," ","f","o","r"," ","a","p","p","l","y","i","n","g"," ","t","o"," ","A","c","m","e">>,
                       bodyText |-> <<>>,
                       internalDate |-> 10]
       [] m = "m2" -> [from |-> <<"j","o","b","s","@","a","c","m","e",".","c","o","m">>,
                       subject |-> <<"Y","o","u","r"," ","i","n","t","e","r","v","i","e","w"," ","w","i","t","h"," ","A","c","m","e">>,
                       bodyText |-> <<"T","h","a","n","k","s"," ","f","o","r"," ","a","p","p","l","y","i","n","g",".">>,
                       internalDate |-> 20]
       [] m = "m3" -> [from |-> <<"J","o","b","s","@","A","c","m","e",".","c","o","m">>,
                       subject |-> <<"R","E",":"," ","T","h","a","n","k","s"," ","f","o","r"," ","a","p","p","l","y","i","n","g"," ","t","o"," ","A","c","m","e">>,
                       bodyText |-> <<"W","e"," ","w","o","u","l","d"," ","l","i","k","e"," ","t","o"," ","s","c","h","e","d","u","l","e"," ","a"," ","c","a","l","l",".">>,
                       internalDate |-> 30]
       [] m = "m4" -> [from |-> <<"m","e","@","g","m","a","i","l",".","c","o","m">>,
                       subject |-> <<"T","h","a","n","k","s"," ","f","o","r"," ","a","p","p","l","y","i","n","g"," ","t","o"," ","A","c","m","e">>,
                       bodyText |-> <<>>,
                       internalDate |-> 40]]

\* users.messages.list returns the newest message first
ProviderOrder == <<"m4", "m3", "m2", "m1">>

(***************************************************************************)
(* The AI adapter: what extractWithOllama can return                       *)
(***************************************************************************)
NoKey == <<>>

\* a field that the extraction holds as null is the empty text
AiFailure(error) ==
  [ok |-> FALSE, error |-> error, confidence |-> 0, include |-> FALSE,
   status |-> "null", normalizedSubjectKey |-> NoKey,
   companyName |-> <<>>, companyDomain |-> <<>>, roleTitle |-> <<>>]

AiExtraction(confidence, include, status, key, companyName, companyDomain, roleTitle) ==
  [ok |-> TRUE, error |-> <<>>, confidence |-> confidence, include |-> include,
   status |-> status, normalizedSubjectKey |-> key,
   companyName |-> companyName, companyDomain |-> companyDomain, roleTitle |-> roleTitle]

AiValue(confidence, include, status, key) ==
  AiExtraction(confidence, include, status, key, <<>>, <<>>, <<>>)

\* the results explored for one call: malformed output, a timeout abort, a
\* result below the confidence threshold (with a company, a domain and a role
\* of its own), a confident exclusion, a confident result with its own subject
\* key, a confident result with a status and a role
AiOutcomes ==
  << AiFailure(<<"O","l","l","a","m","a"," ","d","i","d"," ","n","o","t"," ","r","e","t","u","r","n"," ","J","S","O","N"," ","p","a","y","l","o","a","d">>),
     AiFailure(<<"T","h","i","s"," ","o","p","e","r","a","t","i","o","n"," ","w","a","s"," ","a","b","o","r","t","e","d">>),
     AiExtraction(40, FALSE, "rejected", <<"O","t","h","e","r"," ","r","o","l","e">>,
                  <<"G","l","o","b","e","x">>, <<"g","l","o","b","e","x",".","c","o","m">>, <<"D","a","t","a"," ","E","n","g","i","n","e","e","r">>),
     AiValue(90, FALSE, "null", NoKey),
     AiValue(90, TRUE, "unclassified", <<"A","c","m","e"," ","A","p","p","l","i","c","a","t","i","o","n">>),
     AiExtraction(90, TRUE, "offer", NoKey, <<>>, <<>>, <<"D","a","t","a"," ","E","n","g","i","n","e","e","r">>),
     \* the result used in place of a call once the run has given up on AI
     AiFailure(<<"O","l","l","a","m","a"," ","s","k","i","p","p","e","d"," ","f","o","r"," ","t","h","i","s"," ","s","y","n","c"," ","r","u","n"," ","a","f","t","e","r"," ","r","e","p","e","a","t","e","d"," ","t","i","m","e","o","u","t","s">>) >>

\* indices into AiOutcomes: the results of a real call, and the stand-in
AiCallResults == 1..6
AiSkippedForRun == 7

\* variant: no error text counts as a timeout abort
IsNeverAbortError(error) == FALSE

IsAbortError(error) == includes(toLowerCase(error), <<"a","b","o","r","t","e","d">>)

getMessageDate(internalDate, clock) == IF internalDate = NaN THEN clock ELSE internalDate

\* variant: the messages are left in the order the provider returned them
keepProviderOrder(messages) == messages

\* sortByInternalDateAscending: a stable insertion sort of message ids
RECURSIVE InsertByDate(_, _)
InsertByDate(sorted, m) ==
  IF sorted = <<>> THEN <<m>>
  ELSE IF Messages[Head(sorted)].internalDate <= Messages[m].internalDate
    THEN <<Head(sorted)>> \o InsertByDate(Tail(sorted), m)
    ELSE <<m>> \o sorted

RECURSIVE sortByInternalDateAscending(_)
sortByInternalDateAscending(messages) ==
  IF messages = <<>> THEN <<>>
  ELSE InsertByDate(sortByInternalDateAscending(SubSeq(messages, 1, Len(messages) - 1)),
                    messages[Len(messages)])

(***************************************************************************)
(* The part of one loop iteration that touches no store (parse to status)  *)
(***************************************************************************)
AiConfidenceOf(aiResult) == IF aiResult.ok THEN aiResult.confidence ELSE 0

IsAiConfident(aiResult) == aiResult.ok /\ shouldUseAi(AiConfidenceOf(aiResult))

AiCompanyName(aiResult) ==
  IF IsAiConfident(aiResult) THEN cleanValue(aiResult.companyName) ELSE <<>>

AiCompanyDomain(aiResult) ==
  IF IsAiConfident(aiResult) THEN cleanValue(aiResult.companyDomain) ELSE <<>>

\* the first of the skip conditions of the iteration that holds
ResolutionKind(parsed, aiResult, bodyForInference, senderDomain, companyDomain) ==
  IF ~containsFocus(parsed.subject, bodyForInference, getFocusTerms) THEN "no_focus"
  ELSE IF senderDomain = <<>> THEN "no_domain"
  ELSE IF senderDomain \in NOISE_DOMAINS THEN "noise"
  ELSE IF IsAiConfident(aiResult) /\ ~aiResult.include THEN "ai_skipped"
  ELSE IF companyDomain = <<>> THEN "no_company_domain"
  ELSE "resolved"

ResolvedValues(gmailMessageId, parsed, aiResult, kind, classifier, senderDomain,
               fromDisplayName, company, companyDomain, role, swapped, named,
               groupSubjectKey) ==
  After(<<kind, classifier.predictedStatus, named, groupSubjectKey>>,
  [kind |-> kind,
   gmailMessageId |-> gmailMessageId,
   aiCalled |-> kind \in {"ai_skipped", "no_company_domain", "resolved"},
   aiConfident |-> IsAiConfident(aiResult),
   aiConfidence |-> AiConfidenceOf(aiResult),
   needsReview |-> classifier.needsReview,
   senderDomain |-> senderDomain,
   fromDisplayName |-> fromDisplayName,
   aiCompanyDomain |-> normalizeDomain(AiCompanyDomain(aiResult)),
   companySource |-> company.source,
   resolvedName |-> company.companyName,
   companyName |-> IF ~looksLikeCompanyName(named)
                     THEN inferCompanyNameFromDomain(companyDomain) ELSE named,
   companyDomain |-> companyDomain,
   roleTitle |-> IF swapped THEN company.companyName ELSE role,
   groupSenderDomain |-> senderDomain,
   groupSubjectKey |-> groupSubjectKey,
   status |-> toApplicationStatus(
                IF IsAiConfident(aiResult) THEN aiResult.status ELSE "null",
                IF classifier.predictedStatus = "unclassified"
                  THEN "received" ELSE classifier.predictedStatus),
   classification |-> IF IsAiConfident(aiResult) /\ aiResult.status # "null"
                        THEN aiResult.status ELSE classifier.predictedStatus,
   internalDate |-> parsed.internalDate])

\* the role and the company name change places when the company name looks
\* like a role title and the role does not
ResolveWithDomain(gmailMessageId, parsed, aiResult, bodyForInference, senderDomain,
                  fromDisplayName, company, role, companyDomain, swapped) ==
  After(<<companyDomain, swapped>>,
  ResolvedValues(gmailMessageId, parsed, aiResult,
                 ResolutionKind(parsed, aiResult, bodyForInference, senderDomain,
                                companyDomain),
                 classifyEmailContent(parsed.subject, bodyForInference),
                 senderDomain, fromDisplayName, company, companyDomain, role, swapped,
                 IF swapped THEN inferCompanyNameFromDomain(companyDomain)
                 ELSE company.companyName,
                 normalizeGroupSubjectKey(
                   IF IsAiConfident(aiResult) /\ aiResult.normalizedSubjectKey # NoKey
                     THEN aiResult.normalizedSubjectKey
                     ELSE normalizeSubjectForGroup(parsed.subject))))

ResolveWithCompany(gmailMessageId, parsed, aiResult, bodyForInference, senderDomain,
                   fromDisplayName, company, role) ==
  After(<<company.companyName, role>>,
  ResolveWithDomain(gmailMessageId, parsed, aiResult, bodyForInference, senderDomain,
                    fromDisplayName, company, role,
                    normalizeDomain(IF company.companyDomain # <<>>
                                      THEN company.companyDomain ELSE senderDomain),
                    looksLikeRoleTitle(company.companyName) /\ ~looksLikeRoleTitle(role)))

ResolveWithSender(gmailMessageId, parsed, aiResult, bodyForInference, senderDomain,
                  fromDisplayName, subjectCandidates) ==
  After(<<bodyForInference, senderDomain, fromDisplayName,
          subjectCandidates.companyCandidate>>,
  ResolveWithCompany(gmailMessageId, parsed, aiResult, bodyForInference, senderDomain,
                     fromDisplayName,
                     resolveCompanyIdentity(
                       [subject |-> parsed.subject,
                        subjectCompanyCandidate |-> subjectCandidates.companyCandidate,
                        body |-> bodyForInference,
                        senderDomain |-> senderDomain,
                        fromDisplayName |-> fromDisplayName,
                        aiCompanyName |-> AiCompanyName(aiResult),
                        aiCompanyDomain |-> AiCompanyDomain(aiResult)]),
                     getRoleTitle(IF IsAiConfident(aiResult) THEN aiResult.roleTitle
                                  ELSE <<>>,
                                  subjectCandidates.roleCandidate,
                                  extractRole(parsed.subject, parsed.bodyText))))

\* kind: "no_focus", "no_domain", "noise", "ai_skipped", "no_company_domain"
\* (message skipped) or "resolved" (the values handed to the persistence steps)
ResolveParsed(gmailMessageId, parsed, aiResult) ==
  ResolveWithSender(gmailMessageId, parsed, aiResult, cleanValue(parsed.bodyText),
                    normalizeDomain(extractDomainFromEmail(extractEmailAddress(parsed.from))),
                    extractDisplayName(parsed.from),
                    parseFocusedSubjectCandidates(parsed.subject))

ResolveMessage(m, aiResult) == ResolveParsed(m, Messages[m], aiResult)

\* the resolution of every message under every AI result, computed once
Resolved ==
  [m \in AllMsgIds |-> [k \in 1..Len(AiOutcomes) |-> ResolveMessage(m, AiOutcomes[k])]]

(***************************************************************************)
(* State                                                                   *)
(***************************************************************************)
VARIABLES
  now,       \* the wall clock, in seconds
  mailbox,   \* ids of the messages in the inbox
  settings,  \* AppSetting rows: followupAfterDays, syncLookbackDays
  account,   \* the GmailAccount row: connected, lastHistoryId
  db,        \* EmailMessage, Application, ApplicationEvent, FollowupTask rows
  run,       \* per runSync() invocation in flight: its locals and position
  ollama,    \* the AI adapter: its configuration, server and call in flight
  textCall,  \* a call of a pure text function: its input and its result
  sched,     \* scheduler.ts: pollTask, digestTask, the cron tasks, the calls in flight
  batch,     \* app.ts: the batchJobs map and each job's background loop
  hist       \* history of the behaviour, read by the properties only

vars == <<now, mailbox, settings, account, db, run, ollama, textCall, sched, batch, hist>>

\* the value of a ScheduledTask variable that holds null
NoTask == 0

\* scheduler.ts after the module is loaded: pollTask and digestTask are null,
\* no cron task exists, no call is in flight
IdleSched ==
  [pollTask |-> NoTask, digestTask |-> NoTask, tasks |-> <<>>,
   pollCron |-> "c1", start |-> "idle", startCron |-> "c1", calls |-> <<>>, early |-> FALSE]

\* const batchJobs = new Map<string, BatchJob>()
NoJobs == <<>>

\* no call of a text function has been made
IdleText == [pc |-> "idle", subject |-> <<>>, body |-> <<>>, words |-> <<>>,
             inWord |-> FALSE, out |-> <<>>]

\* the two callers of runSync(): POST /api/sync/run and the poll task
Procs == {"manual", "poll"}

NoId == 0

ZeroStats ==
  [scanned |-> 0, importedEmails |-> 0, applicationsCreatedOrUpdated |-> 0,
   statusesUpdated |-> 0, needsReview |-> 0, aiProcessed |-> 0,
   aiFallbackUsed |-> 0, aiSkipped |-> 0]

createBaseStats == ZeroStats

\* variant: an offer is not treated as terminal
TERMINAL_WITHOUT_OFFER == {"rejected", "withdrawn"}

TERMINAL_STATUSES == {"rejected", "offer", "withdrawn"}

(***************************************************************************)
(* Store operations (Prisma calls), as functions of the store d            *)
(***************************************************************************)
\* application.findUnique by the unique (groupSenderDomain, groupSubjectKey)
FindApplicationByGroup(d, groupSenderDomain, groupSubjectKey) ==
  {a \in d.apps : a.groupSenderDomain = groupSenderDomain
                  /\ a.groupSubjectKey = groupSubjectKey}

FindApplicationById(d, id) == {a \in d.apps : a.id = id}

FindEmailByGmailId(d, gmailMessageId) ==
  {e \in d.emails : e.gmailMessageId = gmailMessageId}

\* variant: the table has no unique index on the group key
NoUniqueGroupIndex(d, groupSenderDomain, groupSubjectKey) == TRUE

\* the unique index Application_groupSenderDomain_groupSubjectKey_key
UniqueGroupIndexAllows(d, groupSenderDomain, groupSubjectKey) ==
  FindApplicationByGroup(d, groupSenderDomain, groupSubjectKey) = {}

\* variant: the ids at or below the newest stored message are taken as seen
filterUpToNewestStored(d, messageIds) ==
  SelectSeq(messageIds,
            LAMBDA id : \A e \in d.emails : e.receivedAt < Messages[id].internalDate)

\* variant: no id is filtered out
filterKeepsAll(d, messageIds) == messageIds

\* filterExistingMessageIds: the ids that have no EmailMessage row
filterExistingMessageIds(d, messageIds) ==
  SelectSeq(messageIds, LAMBDA id : FindEmailByGmailId(d, id) = {})

createCutoffDate(clock, lookbackDays) == clock - lookbackDays * Day

clampLookbackDays(days) ==
  IF days < 1 THEN 1 ELSE IF days > 3650 THEN 3650 ELSE days

\* pruneOldTrackedData: one transaction; deleting an EmailMessage nulls the
\* emailMessageId of its events, deleting an Application deletes its events
\* and follow-ups and nulls the applicationId of its e-mails
pruneOldTrackedData(d, clock, lookbackDays) ==
  LET cutoff == createCutoffDate(clock, lookbackDays)
      goneEmails == {e.id : e \in {x \in d.emails : x.receivedAt < cutoff}}
      goneApps == {a.id : a \in {x \in d.apps : x.lastActivityAt < cutoff}}
      keptEvents == SelectSeq(d.events, LAMBDA ev : ev.applicationId \notin goneApps)
  IN [d EXCEPT
        !.emails = {IF e.applicationId \in goneApps
                      THEN [e EXCEPT !.applicationId = NoId] ELSE e
                    : e \in {x \in d.emails : x.id \notin goneEmails}},
        !.apps = {a \in d.apps : a.id \notin goneApps},
        !.events = [i \in 1..Len(keptEvents) |->
                      IF keptEvents[i].emailMessageId \in goneEmails
                        THEN [keptEvents[i] EXCEPT !.emailMessageId = NoId]
                        ELSE keptEvents[i]],
        !.followups = {t \in d.followups : t.applicationId \notin goneApps}]

(***************************************************************************)
(* One iteration of the runSync() loop, one store call per step.           *)
(* L is the run's locals (L.cur: the iteration in progress), d the store.  *)
(***************************************************************************)
NoCur ==
  [pc |-> "end", m |-> "", ai |-> AiSkippedForRun, fault |-> "none",
   outcome |-> "none", seenBefore |-> FALSE, existingGroup |-> {},
   emailId |-> NoId, eventType |-> "", existing |-> {}, application |-> {},
   openTask |-> {}]

Cur(L) == Resolved[L.cur.m][L.cur.ai]

\* variant: the exception leaves the loop and ends the run
ThrowOutOfRun(L, d) ==
  [L |-> [L EXCEPT !.cur.pc = "end", !.cur.outcome = "failed",
                   !.failed = @ \cup {L.cur.m}, !.pc = "done", !.ok = FALSE],
   d |-> d]

\* the catch block: the iteration ends, the loop goes on
Throw(L, d) ==
  [L |-> [L EXCEPT !.cur.pc = "end", !.cur.outcome = "failed",
                   !.failed = @ \cup {L.cur.m}],
   d |-> d]

\* variant: the manual lock is not consulted
chooseEventTypeUnlocked(hadExisting, existingStatus, nextStatus, manualStatusLocked) ==
  IF ~hadExisting THEN "application_received"
  ELSE IF existingStatus # nextStatus THEN "status_changed"
  ELSE "email_received"

chooseEventType(hadExisting, existingStatus, nextStatus, manualStatusLocked) ==
  IF ~hadExisting THEN "application_received"
  ELSE IF ~manualStatusLocked /\ existingStatus # nextStatus THEN "status_changed"
  ELSE "email_received"

\* variant: a message handled without a confident AI result is not counted
countConfidentOnly(stats, aiConfident) ==
  [stats EXCEPT !.aiProcessed = @ + (IF aiConfident THEN 1 ELSE 0)]

\* stats.aiProcessed += 1 or stats.aiFallbackUsed += 1
countAiUse(stats, aiConfident) ==
  [stats EXCEPT !.aiProcessed = @ + (IF aiConfident THEN 1 ELSE 0),
                !.aiFallbackUsed = @ + (IF aiConfident THEN 0 ELSE 1)]

\* parse, focus check, classifier, AI call with the circuit breaker, the AI
\* counters, and the existingGroup look-up
BeginResolved(L, d, k, fault, m, r) ==
  LET ai == AiOutcomes[k]
      aborts == IF ai.ok THEN 0
                ELSE IF IsAbortError(ai.error) THEN L.ollamaAbortCount + 1
                ELSE L.ollamaAbortCount
      L1 == [L EXCEPT !.queue = Tail(L.queue),
                      !.cur = [NoCur EXCEPT !.m = m, !.ai = k, !.fault = fault,
                                            !.outcome = "skipped",
                                            !.seenBefore = FindEmailByGmailId(d, m) # {}]]
      L2 == [L1 EXCEPT !.aiTrail = Append(@, k),
                       !.ollamaAbortCount = aborts,
                       !.skipAiForRun = L.skipAiForRun \/ (~ai.ok /\ aborts >= AbortLimit),
                       !.stats = countAiUse(@, r.aiConfident)]
      existingGroup == FindApplicationByGroup(d, r.groupSenderDomain, r.groupSubjectKey)
  IN IF ~r.aiCalled THEN [L |-> L1, d |-> d]
     ELSE IF r.kind = "ai_skipped"
       THEN [L |-> [L2 EXCEPT !.stats.aiSkipped = @ + 1], d |-> d]
     ELSE IF r.kind = "no_company_domain" THEN [L |-> L2, d |-> d]
     ELSE [L |-> [L2 EXCEPT !.cur.pc = "upsert", !.cur.outcome = "none",
                            !.cur.existingGroup = existingGroup],
           d |-> d]

BeginMessage(L, d, k, fault) ==
  BeginResolved(L, d, k, fault, Head(L.queue), Resolved[Head(L.queue)][k])

\* prisma.emailMessage.upsert by the unique gmailMessageId
UpsertEmail(L, d, clock, r) ==
  LET eventAt == getMessageDate(r.internalDate, clock)
      old == FindEmailByGmailId(d, r.gmailMessageId)
      row == IF old = {}
               THEN [id |-> d.nextEmailId, gmailMessageId |-> r.gmailMessageId,
                     applicationId |-> NoId]
               ELSE LET e == CHOOSE x \in old : TRUE
                    IN [id |-> e.id, gmailMessageId |-> e.gmailMessageId,
                        applicationId |-> e.applicationId]
      email == [id |-> row.id,
                gmailMessageId |-> row.gmailMessageId,
                receivedAt |-> eventAt,
                parsedCompanyDomain |-> r.senderDomain,
                classification |-> r.classification,
                groupSenderDomain |-> r.groupSenderDomain,
                groupSubjectKey |-> r.groupSubjectKey,
                aiConfidence |-> r.aiConfidence,
                applicationId |-> row.applicationId]
  IN [L |-> [L EXCEPT !.cur.pc = "find", !.cur.emailId = email.id],
      d |-> [d EXCEPT !.emails = (d.emails \ old) \cup {email},
                      !.nextEmailId = IF old = {} THEN @ + 1 ELSE @]]

\* chooseEventType, then the findUnique of createOrUpdateApplicationFromEmail
FindExisting(L, d, r) ==
  LET g == L.cur.existingGroup
      eventType ==
        IF g = {} THEN chooseEventType(FALSE, "null", r.status, FALSE)
        ELSE LET a == CHOOSE x \in g : TRUE
             IN chooseEventType(TRUE, a.status, r.status, a.manualStatusLocked)
  IN [L |-> [L EXCEPT !.cur.pc = "write", !.cur.eventType = eventType,
                      !.cur.existing =
                        FindApplicationByGroup(d, toLowerCase(r.groupSenderDomain),
                                               toLowerCase(r.groupSubjectKey))],
      d |-> d]

\* prisma.application.update of the row found, or prisma.application.create
WriteApplication(L, d, clock, r) ==
  LET eventAt == getMessageDate(r.internalDate, clock)
      groupSenderDomain == toLowerCase(r.groupSenderDomain)
      groupSubjectKey == toLowerCase(r.groupSubjectKey)
  IN IF L.cur.existing # {}
       THEN LET existing == CHOOSE x \in L.cur.existing : TRUE
                rows == FindApplicationById(d, existing.id)
                row == CHOOSE x \in rows : TRUE
                next == [row EXCEPT
                           !.roleTitle = IF r.roleTitle # UNKNOWN_ROLE
                                           THEN r.roleTitle ELSE existing.roleTitle,
                           !.companyName = IF r.companyName # UNKNOWN_COMPANY
                                             THEN r.companyName ELSE existing.companyName,
                           !.companyDomain = IF toLowerCase(r.companyDomain) # <<>>
                                               THEN toLowerCase(r.companyDomain)
                                               ELSE existing.companyDomain,
                           !.status = IF existing.manualStatusLocked
                                        THEN existing.status ELSE r.status,
                           !.sourceEmailMessageId =
                              IF existing.sourceEmailMessageId # NoId
                                THEN existing.sourceEmailMessageId ELSE L.cur.emailId,
                           !.lastActivityAt = eventAt]
            IN IF rows = {} THEN Throw(L, d)
               ELSE [L |-> [L EXCEPT !.cur.pc = "event", !.cur.application = {next}],
                     d |-> [d EXCEPT !.apps = (d.apps \ rows) \cup {next}]]
       ELSE LET next == [id |-> d.nextAppId,
                         companyName |-> r.companyName,
                         companyDomain |-> toLowerCase(r.companyDomain),
                         roleTitle |-> r.roleTitle,
                         groupSenderDomain |-> groupSenderDomain,
                         groupSubjectKey |-> groupSubjectKey,
                         status |-> r.status,
                         manualStatusLocked |-> FALSE,
                         sourceEmailMessageId |-> L.cur.emailId,
                         firstSeenAt |-> eventAt,
                         lastActivityAt |-> eventAt]
            IN IF ~UniqueGroupIndexAllows(d, groupSenderDomain, groupSubjectKey)
                 THEN Throw(L, d)
                 ELSE [L |-> [L EXCEPT !.cur.pc = "event", !.cur.application = {next}],
                       d |-> [d EXCEPT !.apps = d.apps \cup {next},
                                       !.nextAppId = @ + 1]]

\* prisma.applicationEvent.create; the foreign key needs the Application row
CreateEvent(L, d, clock, r) ==
  LET application == CHOOSE x \in L.cur.application : TRUE
      event == [applicationId |-> application.id,
                eventType |-> L.cur.eventType,
                eventAt |-> getMessageDate(r.internalDate, clock),
                emailMessageId |-> L.cur.emailId]
  IN IF FindApplicationById(d, application.id) = {} THEN Throw(L, d)
     ELSE [L |-> [L EXCEPT !.cur.pc = "link"],
           d |-> [d EXCEPT !.events = Append(@, event)]]

\* variant: the foreign key is never set
LinkNothing(L, d) == [L |-> [L EXCEPT !.cur.pc = "log"], d |-> d]

\* prisma.emailMessage.update: sets the foreign key of the EmailMessage
LinkEmail(L, d) ==
  LET application == CHOOSE x \in L.cur.application : TRUE
      rows == {e \in d.emails : e.id = L.cur.emailId}
      row == CHOOSE x \in rows : TRUE
  IN IF rows = {} \/ FindApplicationById(d, application.id) = {} THEN Throw(L, d)
     ELSE [L |-> [L EXCEPT !.cur.pc = "log"],
           d |-> [d EXCEPT !.emails =
                    (d.emails \ rows) \cup {[row EXCEPT !.applicationId = application.id]}]]

\* prisma.classificationRuleLog.create: a diagnostic row (not kept in the
\* model) whose foreign key needs the EmailMessage row
CreateRuleLog(L, d) ==
  IF {e \in d.emails : e.id = L.cur.emailId} = {} THEN Throw(L, d)
  ELSE [L |-> [L EXCEPT !.cur.pc = "rf_find"], d |-> d]

(***************************************************************************)
(* Follow-up scheduler                                                     *)
(***************************************************************************)
\* variant: the look-up never finds the open task
FindNoOpenTask(d, applicationId) == {}

\* followupTask.findFirst({applicationId, state: "open"}, orderBy dueAt asc)
FindFirstOpenTask(d, applicationId) ==
  LET open == {t \in d.followups : t.applicationId = applicationId /\ t.state = "open"}
  IN IF open = {} THEN {}
     ELSE {CHOOSE t \in open : \A u \in open : t.dueAt <= u.dueAt}

Abs(x) == IF x < 0 THEN -x ELSE x

\* the writes of refreshFollowupForApplication once openTask has been read;
\* ok is FALSE when the store rejects the write (row or parent row gone)
ApplyFollowupPolicy(d, application, followupAfterDays, openTask) ==
  LET dueAt == application.lastActivityAt + followupAfterDays * Day
      task == CHOOSE t \in openTask : TRUE
      rows == {t \in d.followups : t.id = task.id}
      row == CHOOSE t \in rows : TRUE
  IN IF application.status \in TERMINAL_STATUSES
       THEN IF openTask = {} THEN [ok |-> TRUE, d |-> d]
            ELSE IF rows = {} THEN [ok |-> FALSE, d |-> d]
            ELSE [ok |-> TRUE,
                  d |-> [d EXCEPT !.followups =
                           (@ \ rows) \cup {[row EXCEPT !.state = "done"]}]]
     ELSE IF openTask = {}
       THEN IF FindApplicationById(d, application.id) = {} THEN [ok |-> FALSE, d |-> d]
            ELSE [ok |-> TRUE,
                  d |-> [d EXCEPT !.followups =
                           @ \cup {[id |-> d.nextTaskId, applicationId |-> application.id,
                                    dueAt |-> dueAt, state |-> "open"]},
                         !.nextTaskId = @ + 1]]
     ELSE IF Abs(task.dueAt - dueAt) > DriftTolerance
       THEN IF rows = {} THEN [ok |-> FALSE, d |-> d]
            ELSE [ok |-> TRUE,
                  d |-> [d EXCEPT !.followups =
                           (@ \ rows) \cup {[row EXCEPT !.dueAt = dueAt]}]]
     ELSE [ok |-> TRUE, d |-> d]

refreshFollowupForApplication(d, application, followupAfterDays) ==
  ApplyFollowupPolicy(d, application, followupAfterDays,
                      FindFirstOpenTask(d, application.id))

\* the findFirst of the refresh called by runSync
FindOpenTask(L, d) ==
  LET application == CHOOSE x \in L.cur.application : TRUE
  IN [L |-> [L EXCEPT !.cur.pc = "rf_write",
                      !.cur.openTask = FindFirstOpenTask(d, application.id)],
      d |-> d]

\* the write of the refresh called by runSync, then the run counters
RefreshAndCount(L, d, r) ==
  LET application == CHOOSE x \in L.cur.application : TRUE
      res == ApplyFollowupPolicy(d, application, L.followupAfterDays, L.cur.openTask)
  IN IF ~res.ok THEN Throw(L, d)
     ELSE [L |-> [L EXCEPT
                    !.cur.pc = "end",
                    !.cur.outcome = "imported",
                    !.stats.importedEmails = @ + 1,
                    !.stats.applicationsCreatedOrUpdated = @ + 1,
                    !.stats.statusesUpdated =
                       @ + (IF L.cur.eventType = "status_changed" THEN 1 ELSE 0),
                    !.stats.needsReview =
                       @ + (IF ~r.aiConfident \/ r.needsReview THEN 1 ELSE 0)],
           d |-> res.d]

\* the next store call of the iteration in progress
StepResolved(L, d, clock, r) ==
  IF L.cur.fault = L.cur.pc THEN Throw(L, d)
  ELSE CASE L.cur.pc = "upsert"   -> UpsertEmail(L, d, clock, r)
         [] L.cur.pc = "find"     -> FindExisting(L, d, r)
         [] L.cur.pc = "write"    -> WriteApplication(L, d, clock, r)
         [] L.cur.pc = "event"    -> CreateEvent(L, d, clock, r)
         [] L.cur.pc = "link"     -> LinkEmail(L, d)
         [] L.cur.pc = "log"      -> CreateRuleLog(L, d)
         [] L.cur.pc = "rf_find"  -> FindOpenTask(L, d)
         [] L.cur.pc = "rf_write" -> RefreshAndCount(L, d, r)

StepMessage(L, d, clock) == StepResolved(L, d, clock, Cur(L))

\* the iteration run to its end with no other store access in between
RECURSIVE FinishMessage(_, _)
FinishMessage(s, clock) ==
  IF s.L.cur.pc = "end" THEN s
  ELSE FinishMessage(StepMessage(s.L, s.d, clock), clock)

\* where a store call of an iteration may fail for a reason outside the model
\* (connection lost, disk full): before the Application write, before the link
FaultPoints == {"none", "write", "link"}

(***************************************************************************)
(* The mailbox provider                                                    *)
(***************************************************************************)
\* the focus phrases the query carries, matched on the full text
MatchesFocusTerms ==
  [m \in AllMsgIds |-> containsFocus(Messages[m].subject, Messages[m].bodyText, getFocusTerms)]

GmailMatchesQuery(m, cutoff) ==
  /\ Messages[m].internalDate >= cutoff
  /\ MatchesFocusTerms[m]

\* fetchInboxMessageIdsByQuery: "<focus terms> newer_than:<lookbackDays>d"
fetchInboxMessageIdsByQuery(box, clock, lookbackDays) ==
  SelectSeq(ProviderOrder,
            LAMBDA m : m \in box /\ GmailMatchesQuery(m, createCutoffDate(clock, lookbackDays)))

\* users.getProfile().historyId: grows with every change of the mailbox
ProfileHistoryId(box) == Cardinality(box) + 1

Range(q) == {q[i] : i \in 1..Len(q)}

\* fetchMessagesByIds: the outcomes of the fetch loop - each id is fetched or
\* fails, and a quota error ends the loop (quotaLimited) with it and every
\* later id unfetched
FetchOutcomes(ids) ==
  {[messages |-> SelectSeq(ids, LAMBDA id : id \in got), quotaLimited |-> q] :
     <<got, q>> \in {x \in (SUBSET Range(ids)) \X BOOLEAN :
                       x[2] => (ids # <<>> /\ ids[Len(ids)] \notin x[1])}}

\* what users.messages.get answers for one id: the message, or an error with
\* its HTTP status and message
FetchResponses ==
  {[ok |-> TRUE, code |-> 200, message |-> <<>>],
   [ok |-> FALSE, code |-> 404, message |-> <<"N","o","t"," ","F","o","u","n","d">>],
   [ok |-> FALSE, code |-> 403, message |-> <<"Q","u","o","t","a"," ","e","x","c","e","e","d","e","d">>],
   [ok |-> FALSE, code |-> 429, message |-> <<"U","s","e","r","-","r","a","t","e"," ","l","i","m","i","t"," ","e","x","c","e","e","d","e","d">>]}

isQuotaExceededError(error) ==
  /\ error.code = 403
  /\ \/ includes(toLowerCase(error.message), <<"q","u","o","t","a">>)
     \/ includes(toLowerCase(error.message), <<"r","a","t","e"," ","l","i","m","i","t">>)

\* the provider's answer says that a quota or a rate limit is exceeded
ReportsRateLimit(error) ==
  /\ ~error.ok
  /\ \/ includes(toLowerCase(error.message), <<"q","u","o","t","a">>)
     \/ includes(toLowerCase(error.message), <<"r","a","t","e"," ","l","i","m","i","t">>)

\* fetchMessagesByIds with the answer the provider gives for each id;
\* rateLimited (history): an answer the loop received reported a rate limit
RECURSIVE fetchMessagesByIds(_, _)
fetchMessagesByIds(ids, respond) ==
  IF ids = <<>> THEN [messages |-> <<>>, quotaLimited |-> FALSE, rateLimited |-> FALSE]
  ELSE IF respond[Head(ids)].ok
    THEN [fetchMessagesByIds(Tail(ids), respond) EXCEPT !.messages = <<Head(ids)>> \o @]
  ELSE IF isQuotaExceededError(respond[Head(ids)])
    THEN [messages |-> <<>>, quotaLimited |-> TRUE, rateLimited |-> TRUE]
  ELSE [fetchMessagesByIds(Tail(ids), respond) EXCEPT
          !.rateLimited = @ \/ ReportsRateLimit(respond[Head(ids)])]

\* the result of fetchMessagesByIds without the history
FetchResult(fetched) ==
  [messages |-> fetched.messages, quotaLimited |-> fetched.quotaLimited]

(***************************************************************************)
(* runSync()                                                               *)
(***************************************************************************)
IdleRun ==
  [pc |-> "idle", ok |-> TRUE, stats |-> ZeroStats, lookbackDays |-> 0,
   followupAfterDays |-> 0, queue |-> <<>>, skipAiForRun |-> FALSE,
   ollamaAbortCount |-> 0, newestHistoryId |-> NoId, quotaLimited |-> FALSE,
   cur |-> NoCur, reason |-> "none",
   \* history, read by the properties only
   queried |-> {}, imported |-> {}, backToBack |-> FALSE, aiTrail |-> <<>>,
   failed |-> {}, fetchedIds |-> {}, rateLimited |-> FALSE, written |-> {},
   fetchedInOrder |-> TRUE]

\* variant: an account is found whether or not one is connected
getAnyAccount(acct) == TRUE

\* getConnectedAccount(): the account row, if there is one
getConnectedAccount(acct) == acct.connected

\* variant: the checkpoint is written whatever the provider returned
updateCheckpointAlways(acct, newestHistoryId) ==
  [acct EXCEPT !.lastHistoryId = newestHistoryId]

\* updateAccountCheckpoint: nothing is written without a change-id
updateAccountCheckpoint(acct, newestHistoryId) ==
  IF newestHistoryId = NoId THEN acct ELSE [acct EXCEPT !.lastHistoryId = newestHistoryId]

\* runSync() from its entry to the start of the loop: account check, settings,
\* prune, query, filter of the ids already stored, fetch and sort
StartRun(p, fetched, lookbackDays, pruned, focused, newestHistoryId, unseenMessageIds) ==
  LET L0 == [IdleRun EXCEPT !.stats = createBaseStats,
                            !.backToBack = hist.quiet]
      L1 == [L0 EXCEPT !.lookbackDays = lookbackDays,
                       !.followupAfterDays = settings.followupAfterDays,
                       !.stats.scanned = Len(focused),
                       !.newestHistoryId = newestHistoryId,
                       !.queried = Range(focused)]
      L2 == [L1 EXCEPT !.fetchedIds = Range(fetched.messages),
                       !.rateLimited = fetched.rateLimited,
                       !.fetchedInOrder =
                          \A i, j \in 1..Len(fetched.messages) :
                            i < j => Messages[fetched.messages[i]].internalDate
                                       <= Messages[fetched.messages[j]].internalDate]
  IN /\ run[p].pc \in {"idle", "reset"}
     /\ hist.runs < MaxRuns
     /\ UNCHANGED <<now, mailbox, settings>>
     /\ IF ~getConnectedAccount(account)
          THEN /\ run' = [run EXCEPT ![p] = [L0 EXCEPT !.pc = "done", !.ok = FALSE,
                                                       !.reason = "no_account"]]
               /\ hist' = [hist EXCEPT !.runs = @ + 1]
               /\ UNCHANGED <<account, db>>
        ELSE IF unseenMessageIds = <<>>
          THEN /\ db' = pruned
               /\ account' = updateAccountCheckpoint(account, newestHistoryId)
               /\ run' = [run EXCEPT ![p] = [L1 EXCEPT !.pc = "done", !.reason = "no_new"]]
               /\ hist' = [hist EXCEPT !.runs = @ + 1]
        ELSE /\ FetchResult(fetched) \in FetchOutcomes(unseenMessageIds)
             /\ Len(fetched.messages) < Len(unseenMessageIds) => hist.faults < MaxFaults
             /\ hist' = [hist EXCEPT !.runs = @ + 1,
                                     !.faults = IF Len(fetched.messages) < Len(unseenMessageIds)
                                                  THEN @ + 1 ELSE @]
             /\ db' = pruned
             /\ run' = [run EXCEPT ![p] =
                          [L2 EXCEPT !.pc = "loop",
                                     !.queue = sortByInternalDateAscending(fetched.messages),
                                     !.quotaLimited = fetched.quotaLimited]]
             /\ UNCHANGED account

\* the reads before the loop: settings, prune, query, filter
QueryRun(p, fetched, lookbackDays, pruned, focused) ==
  StartRun(p, fetched, lookbackDays, pruned, focused, ProfileHistoryId(mailbox),
           filterExistingMessageIds(pruned, focused))

BeginRun(p, fetched) ==
  QueryRun(p, fetched, clampLookbackDays(settings.syncLookbackDays),
           pruneOldTrackedData(db, now, clampLookbackDays(settings.syncLookbackDays)),
           fetchInboxMessageIdsByQuery(mailbox, now,
                                       clampLookbackDays(settings.syncLookbackDays)))

\* the fetch outcomes BeginRun may be given
FetchChoices ==
  {[messages |-> f.messages, quotaLimited |-> f.quotaLimited, rateLimited |-> f.quotaLimited] :
     f \in UNION {FetchOutcomes(SelectSeq(ProviderOrder, LAMBDA m : m \in S)) :
                    S \in SUBSET MsgIds}}

\* what an iteration adds to the history
NoteProcessed(L, faults, answers) ==
  [hist EXCEPT !.processed[L.cur.m] = IF L.cur.outcome = "imported" THEN @ + 1 ELSE @,
               !.faults = @ + faults,
               !.answers = @ + answers]

\* 1 when the AI adapter's answer reaches the confidence threshold
AnswersOf(k) ==
  IF AiOutcomes[k].ok /\ shouldUseAi(AiOutcomes[k].confidence) THEN 1 ELSE 0

\* the calls of an iteration that failed
FaultsOf(k, fault) ==
  (IF AiOutcomes[k].ok \/ k = AiSkippedForRun THEN 0 ELSE 1) + (IF fault = "none" THEN 0 ELSE 1)

\* one whole iteration of the loop, for a run nothing else interleaves with
\* the locals of a run after an iteration, with its history
NoteImported(L) ==
  [L EXCEPT !.imported = IF L.cur.outcome = "imported" THEN @ \cup {L.cur.m} ELSE @,
            !.written = IF L.cur.application = {} THEN @
                        ELSE @ \cup {[m |-> L.cur.m, status |-> Cur(L).status,
                                       applicationId |-> (CHOOSE x \in L.cur.application : TRUE).id]}]

IterationApplied(p, k, fault, s, faults, answers) ==
  /\ run[p].pc = "loop"
  /\ run[p].queue # <<>>
  /\ run[p].cur.pc = "end"
  /\ IF run[p].skipAiForRun THEN k = AiSkippedForRun ELSE k \in AiCallResults
  /\ fault # "none" => s.L.cur.outcome = "failed"
  /\ run' = [run EXCEPT ![p] = NoteImported(s.L)]
  /\ db' = s.d
  /\ hist' = NoteProcessed(s.L, faults, answers)
  /\ UNCHANGED <<now, mailbox, settings, account>>

\* an iteration within the explored number of failing calls and AI answers
IterationDone(p, k, fault, s) ==
  /\ hist.faults + FaultsOf(k, fault) <= MaxFaults
  /\ hist.answers + AnswersOf(k) <= MaxAiAnswers
  /\ IterationApplied(p, k, fault, s, FaultsOf(k, fault), AnswersOf(k))

ProcessMessage(p, k, fault) ==
  IterationDone(p, k, fault, FinishMessage(BeginMessage(run[p], db, k, fault), now))

\* after the loop: checkpoint and result
EndRun(p) ==
  /\ run[p].pc = "loop"
  /\ run[p].queue = <<>>
  /\ run[p].cur.pc = "end"
  /\ account' = updateAccountCheckpoint(account, run[p].newestHistoryId)
  /\ run' = [run EXCEPT ![p].pc = "done", ![p].ok = TRUE,
                        ![p].reason = IF run[p].quotaLimited THEN "partial" ELSE "completed"]
  /\ UNCHANGED <<now, mailbox, settings, db, hist>>

\* the caller takes the result
ReturnRun(p) ==
  /\ run[p].pc = "done"
  /\ run' = [run EXCEPT ![p] = IdleRun]
  /\ hist' = [hist EXCEPT !.quiet = \A q \in Procs \ {p} : run[q].pc = "idle",
                          !.lastRun = [emails |-> Cardinality(db.emails),
                                       apps |-> Cardinality(db.apps),
                                       emailIds |-> {e.gmailMessageId : e \in db.emails},
                                       breakerOpen |-> run[p].skipAiForRun]]
  /\ UNCHANGED <<now, mailbox, settings, account, db>>

(***************************************************************************)
(* Manual edits and the environment                                        *)
(***************************************************************************)
AllIdle == \A p \in Procs : run[p].pc = "idle"

\* PATCH /api/applications/:id bodies explored ("keep": field not sent)
PatchPayloads ==
  { [status |-> "keep", manualStatusLocked |-> "true"],
    [status |-> "rejected", manualStatusLocked |-> "keep"],
    [status |-> "keep", manualStatusLocked |-> "false"] }

\* patchApplication: the Application update and its manual_update event
patchApplication(d, id, payload, clock) ==
  LET rows == FindApplicationById(d, id)
      current == CHOOSE x \in rows : TRUE
      updated == [current EXCEPT
                    !.status = IF payload.status = "keep" THEN @ ELSE payload.status,
                    !.manualStatusLocked =
                       IF payload.manualStatusLocked = "keep" THEN @
                       ELSE payload.manualStatusLocked = "true",
                    !.lastActivityAt = clock]
  IN IF rows = {} THEN d
     ELSE [d EXCEPT !.apps = (@ \ rows) \cup {updated},
                    !.events = Append(@, [applicationId |-> id,
                                          eventType |-> "manual_update",
                                          eventAt |-> clock,
                                          emailMessageId |-> NoId])]

PatchApplication(id, payload) ==
  /\ hist.edits < MaxEdits
  /\ FindApplicationById(db, id) # {}
  /\ db' = patchApplication(db, id, payload, now)
  /\ hist' = [hist EXCEPT !.edits = @ + 1, !.quiet = FALSE]
  /\ UNCHANGED <<now, mailbox, settings, account, run>>

\* completeFollowup: POST /api/followups/:id/done
completeFollowup(d, id) ==
  [d EXCEPT !.followups = {IF t.id = id THEN [t EXCEPT !.state = "done"] ELSE t : t \in @}]

CompleteFollowup(id) ==
  /\ hist.edits < MaxEdits
  /\ \E t \in db.followups : t.id = id
  /\ db' = completeFollowup(db, id)
  /\ hist' = [hist EXCEPT !.edits = @ + 1, !.quiet = FALSE]
  /\ UNCHANGED <<now, mailbox, settings, account, run>>

\* PATCH /api/settings
UpdateSettings(followupAfterDays, syncLookbackDays) ==
  /\ hist.edits < MaxEdits
  /\ settings' = [followupAfterDays |-> followupAfterDays,
                  syncLookbackDays |-> syncLookbackDays]
  /\ settings' # settings
  /\ hist' = [hist EXCEPT !.edits = @ + 1, !.quiet = FALSE]
  /\ UNCHANGED <<now, mailbox, account, db, run>>

\* a message arrives in the inbox, on the day of its timestamp
Deliver(m) ==
  /\ m \notin mailbox
  /\ \A o \in MsgIds : Messages[o].internalDate < Messages[m].internalDate => o \in mailbox
  /\ Messages[m].internalDate <= now
  /\ now < Messages[m].internalDate + Day
  /\ mailbox' = mailbox \cup {m}
  /\ hist' = [hist EXCEPT !.quiet = FALSE]
  /\ UNCHANGED <<now, settings, account, db, run>>

\* a day passes
Tick ==
  /\ hist.days < MaxDays
  /\ now' = now + Day
  /\ hist' = [hist EXCEPT !.days = @ + 1, !.quiet = FALSE]
  /\ UNCHANGED <<mailbox, settings, account, db, run>>

(***************************************************************************)
(* The AI adapter: extractWithOllama, one request per step                 *)
(***************************************************************************)
\* process.env.OLLAMA_ENABLED: not set, or set to a string
EnvUnset == [set |-> FALSE, value |-> <<>>]

EnvSet(value) == [set |-> TRUE, value |-> value]

EnvValues ==
  {EnvUnset, EnvSet(<<"t","r","u","e">>), EnvSet(<<"f","a","l","s","e">>), EnvSet(<<"0">>), EnvSet(<<>>)}

\* z.coerce.boolean().default(true): Boolean(value), true for every string
\* that is not empty
OLLAMA_ENABLED(raw) == IF ~raw.set THEN TRUE ELSE raw.value # <<>>

\* the for loop's limit
OllamaAttempts == 2

\* statusSchema
statusSchema ==
  {"submitted", "received", "rejected", "interview", "assessment", "offer",
   "withdrawn", "unclassified"}

\* the texts the model may answer with: no JSON at all, an answer cut off
\* inside the object, a valid object inside a sentence, a valid object, an
\* object that does not fit the schema
TEXT_PLAIN == <<"n","o","t","-","j","s","o","n">>
TEXT_CUT_OFF == <<"{","\"","i","n","c","l","u","d","e","\"",":","t","r","u","e",",","\"","m","e","t","a","\"",":","{","}",",","\"","c","o","n","f","i","d">>
TEXT_VALID == <<"{","\"","i","n","c","l","u","d","e","\"",":","t","r","u","e",",","\"","c","o","m","p","a","n","y","N","a","m","e","\"",":","n","u","l","l",",","\"","c","o","m","p","a","n","y","D","o","m","a","i","n","\"",":","n","u","l","l",",","\"","r","o","l","e","T","i","t","l","e","\"",":","n","u","l","l",",","\"","s","t","a","t","u","s","\"",":","\"","r","e","c","e","i","v","e","d","\"",",","\"","n","o","r","m","a","l","i","z","e","d","S","u","b","j","e","c","t","K","e","y","\"",":","n","u","l","l",",","\"","c","o","n","f","i","d","e","n","c","e","\"",":","0",".","9","}">>
TEXT_WRAPPED == <<"H","e","r","e"," ","i","s"," ","t","h","e"," ","J","S","O","N",":"," ">> \o TEXT_VALID \o <<"\n">>
TEXT_OFF_SCHEMA == <<"{","\"","i","n","c","l","u","d","e","\"",":","t","r","u","e",",","\"","c","o","n","f","i","d","e","n","c","e","\"",":","7","}">>

OllamaTexts == {TEXT_PLAIN, TEXT_CUT_OFF, TEXT_WRAPPED, TEXT_VALID, TEXT_OFF_SCHEMA}

\* what one request to /api/generate ends in: fetch rejects, a non-2xx
\* status, the abort of the timeout, or a body whose response field is a text
OllamaReplies ==
  {[kind |-> "network", response |-> <<>>],
   [kind |-> "status", response |-> <<>>],
   [kind |-> "abort", response |-> <<>>]}
  \cup {[kind |-> "body", response |-> text] : text \in OllamaTexts}

ERROR_NETWORK == <<"f","e","t","c","h"," ","f","a","i","l","e","d">>
ERROR_STATUS == <<"O","l","l","a","m","a"," ","r","e","q","u","e","s","t"," ","f","a","i","l","e","d"," ","w","i","t","h"," ","s","t","a","t","u","s"," ","5","0","0">>
ERROR_ABORTED == <<"T","h","i","s"," ","o","p","e","r","a","t","i","o","n"," ","w","a","s"," ","a","b","o","r","t","e","d">>
ERROR_SYNTAX == <<"U","n","e","x","p","e","c","t","e","d"," ","e","n","d"," ","o","f"," ","J","S","O","N"," ","i","n","p","u","t">>
ERROR_NO_JSON == <<"O","l","l","a","m","a"," ","d","i","d"," ","n","o","t"," ","r","e","t","u","r","n"," ","J","S","O","N"," ","p","a","y","l","o","a","d">>
ERROR_SCHEMA == <<"R","e","q","u","i","r","e","d">>
ERROR_UNKNOWN == <<"U","n","k","n","o","w","n"," ","O","l","l","a","m","a"," ","e","r","r","o","r">>
ERROR_DISABLED == <<"O","l","l","a","m","a"," ","d","i","s","a","b","l","e","d">>

\* callOllama: the parsed body, or the Error it throws
callOllama(reply) ==
  CASE reply.kind = "network" -> [threw |-> TRUE, message |-> ERROR_NETWORK, response |-> <<>>]
    [] reply.kind = "status" -> [threw |-> TRUE, message |-> ERROR_STATUS, response |-> <<>>]
    [] reply.kind = "abort" -> [threw |-> TRUE, message |-> ERROR_ABORTED, response |-> <<>>]
    [] OTHER -> [threw |-> FALSE, message |-> <<>>, response |-> reply.response]

\* String.prototype.lastIndexOf, 1-based; 0 when absent
lastIndexOf(s, p) ==
  LET hits == {i \in 1..(Len(s) - Len(p) + 1) : SubSeq(s, i, i + Len(p) - 1) = p}
  IN IF hits = {} THEN 0 ELSE CHOOSE i \in hits : \A j \in hits : i >= j

\* null
NoCandidate == <<>>

extractJsonCandidate(text) ==
  LET trimmed == trim(text)
      start == indexOf(trimmed, <<"{">>)
      end == lastIndexOf(trimmed, <<"}">>)
  IN IF startsWith(trimmed, <<"{">>) /\ endsWith(trimmed, <<"}">>) THEN trimmed
     ELSE IF start = 0 \/ end = 0 \/ end <= start THEN NoCandidate
     ELSE SubSeq(trimmed, start, end)

\* a parsed document: the keys it has, and the values of three of them
\* (confidence in hundredths)
ParsedDocument(has, include, status, confidence) ==
  [has |-> has, include |-> include, status |-> status, confidence |-> confidence]

SchemaKeys ==
  {"include", "companyName", "companyDomain", "roleTitle", "status",
   "normalizedSubjectKey", "confidence"}

\* JSON.parse on the candidates the texts give: the document, or a SyntaxError
JSONparse(candidate) ==
  IF candidate = TEXT_VALID
    THEN [threw |-> FALSE, value |-> ParsedDocument(SchemaKeys, TRUE, "received", 90)]
  ELSE IF candidate = TEXT_OFF_SCHEMA
    THEN [threw |-> FALSE, value |-> ParsedDocument({"include", "confidence"}, TRUE, "null", 700)]
  ELSE [threw |-> TRUE, value |-> ParsedDocument({}, FALSE, "null", 0)]

\* ollamaExtractionSchema.safeParse
SchemaAccepts(value) ==
  /\ SchemaKeys \subseteq value.has
  /\ value.status \in statusSchema \cup {"null"}
  /\ value.confidence \in 0..100

IdleOllama ==
  [pc |-> "idle", env |-> EnvUnset, server |-> <<>>, given |-> <<>>,
   attempt |-> 0, calls |-> 0, lastError |-> <<>>, result |-> AiFailure(<<>>)]

\* return { ok: false, value: null, error }
ReturnFailure(o, error) == [o EXCEPT !.pc = "returned", !.result = AiFailure(error)]

\* continue: the next attempt if one is left, else the return after the loop
Continue(o, error) ==
  IF o.attempt < OllamaAttempts
    THEN [o EXCEPT !.lastError = error]
    ELSE ReturnFailure([o EXCEPT !.lastError = error], error)

\* variant: the catch block goes on to the next attempt
CatchAndContinue(o, message) == Continue(o, message)

\* the catch block: lastError = error.message; break
CatchBlock(o, message) == ReturnFailure([o EXCEPT !.lastError = message], message)

\* one pass of the loop body: the request, the candidate, the parse and the
\* validation
AttemptParsed(o, r, candidate, parsed) ==
  IF r.threw THEN CatchBlock(o, r.message)
  ELSE IF candidate = NoCandidate THEN Continue(o, ERROR_NO_JSON)
  ELSE IF parsed.threw THEN CatchBlock(o, ERROR_SYNTAX)
  ELSE IF ~SchemaAccepts(parsed.value) THEN Continue(o, ERROR_SCHEMA)
  ELSE [o EXCEPT !.pc = "returned",
                 !.result = AiValue(parsed.value.confidence, parsed.value.include,
                                    parsed.value.status, NoKey)]

AttemptCandidate(o, r, candidate) == AttemptParsed(o, r, candidate, JSONparse(candidate))

AttemptReply(o, r) == AttemptCandidate(o, r, extractJsonCandidate(trim(r.response)))

\* extractWithOllama up to its first request
ExtractCall ==
  /\ ollama.pc = "idle"
  /\ ollama' = IF ~OLLAMA_ENABLED(ollama.env)
                 THEN ReturnFailure(ollama, ERROR_DISABLED)
                 ELSE [ollama EXCEPT !.pc = "attempt", !.attempt = 0,
                                     !.lastError = ERROR_UNKNOWN]
  /\ UNCHANGED <<now, mailbox, settings, account, db, run, hist>>

\* one attempt: the server answers the request
ExtractAttempt ==
  /\ ollama.pc = "attempt"
  /\ ollama.server # <<>>
  /\ ollama' = AttemptReply([ollama EXCEPT !.server = Tail(@), !.calls = @ + 1,
                                           !.attempt = @ + 1],
                            callOllama(Head(ollama.server)))
  /\ UNCHANGED <<now, mailbox, settings, account, db, run, hist>>

(***************************************************************************)
(* Specification: operations that do not overlap                           *)
(***************************************************************************)
EmptyStore ==
  [emails |-> {}, apps |-> {}, events |-> <<>>, followups |-> {},
   nextEmailId |-> 1, nextAppId |-> 1, nextTaskId |-> 1]

InitHist ==
  [runs |-> 0, days |-> 0, edits |-> 0, faults |-> 0, answers |-> 0, refreshes |-> 0, quiet |-> FALSE,
   processed |-> [m \in AllMsgIds |-> 0],
   lastRun |-> [emails |-> 0, apps |-> 0, emailIds |-> {}, breakerOpen |-> FALSE]]

Init ==
  /\ now = 100
  /\ mailbox = {}
  /\ settings = [followupAfterDays |-> 1, syncLookbackDays |-> 1]
  /\ account = [connected |-> TRUE, lastHistoryId |-> NoId]
  /\ db = EmptyStore
  /\ run = [p \in Procs |-> IdleRun]
  /\ ollama = IdleOllama
  /\ textCall = IdleText
  /\ sched = IdleSched
  /\ batch = NoJobs
  /\ hist = InitHist

AppIds == 1..(MaxRuns * Cardinality(MsgIds))

Next ==
  \/ \E fetched \in FetchChoices :
       AllIdle /\ BeginRun("manual", fetched) /\ UNCHANGED <<ollama, textCall, sched, batch>>
  \/ \E k \in 1..Len(AiOutcomes), fault \in FaultPoints :
       ProcessMessage("manual", k, fault) /\ UNCHANGED <<ollama, textCall, sched, batch>>
  \/ EndRun("manual") /\ UNCHANGED <<ollama, textCall, sched, batch>>
  \/ ReturnRun("manual") /\ UNCHANGED <<ollama, textCall, sched, batch>>
  \/ \E id \in AppIds, payload \in PatchPayloads :
       AllIdle /\ PatchApplication(id, payload) /\ UNCHANGED <<ollama, textCall, sched, batch>>
  \/ \E id \in AppIds : AllIdle /\ CompleteFollowup(id) /\ UNCHANGED <<ollama, textCall, sched, batch>>
  \/ \E f \in 1..MaxSettingDays, l \in 1..MaxSettingDays :
       AllIdle /\ UpdateSettings(f, l) /\ UNCHANGED <<ollama, textCall, sched, batch>>
  \/ \E m \in MsgIds : AllIdle /\ Deliver(m) /\ UNCHANGED <<ollama, textCall, sched, batch>>
  \/ AllIdle /\ Tick /\ UNCHANGED <<ollama, textCall, sched, batch>>

Spec == Init /\ [][Next]_vars

(***************************************************************************)
(* Specification: a manual run and a scheduled poll whose store calls      *)
(* interleave (POST /api/sync/run while the cron task runs)                *)
(***************************************************************************)
\* the loop of run p takes the next message: parse, classify, AI call and the
\* look-up of its group
MessageTaken(p, k, b) ==
  /\ run[p].pc = "loop"
  /\ run[p].queue # <<>>
  /\ run[p].cur.pc = "end"
  /\ IF run[p].skipAiForRun THEN k = AiSkippedForRun ELSE k \in AiCallResults
  /\ hist.faults + FaultsOf(k, "none") <= MaxFaults
  /\ hist.answers + AnswersOf(k) <= MaxAiAnswers
  /\ run' = [run EXCEPT ![p] = b.L]
  /\ db' = b.d
  /\ hist' = [hist EXCEPT !.faults = @ + FaultsOf(k, "none"),
                          !.answers = @ + AnswersOf(k)]
  /\ UNCHANGED <<now, mailbox, settings, account>>

NextMessage(p, k) == MessageTaken(p, k, BeginMessage(run[p], db, k, "none"))

\* the next awaited store call of run p
CallDone(p, s) ==
  /\ run[p].pc = "loop"
  /\ run[p].cur.pc # "end"
  /\ run' = [run EXCEPT ![p] = NoteImported(s.L)]
  /\ db' = s.d
  /\ hist' = NoteProcessed(s.L, 0, 0)
  /\ UNCHANGED <<now, mailbox, settings, account>>

StoreCall(p) == CallDone(p, StepMessage(run[p], db, now))

NextRace ==
  \/ \E p \in Procs, fetched \in FetchChoices :
       hist.runs < MaxRaceRuns /\ BeginRun(p, fetched) /\ UNCHANGED <<ollama, textCall, sched, batch>>
  \/ \E p \in Procs, k \in 1..Len(AiOutcomes) : NextMessage(p, k) /\ UNCHANGED <<ollama, textCall, sched, batch>>
  \/ \E p \in Procs : StoreCall(p) /\ UNCHANGED <<ollama, textCall, sched, batch>>
  \/ \E p \in Procs : EndRun(p) /\ UNCHANGED <<ollama, textCall, sched, batch>>
  \/ \E p \in Procs : ReturnRun(p) /\ UNCHANGED <<ollama, textCall, sched, batch>>
  \/ \E m \in MsgIds : AllIdle /\ Deliver(m) /\ UNCHANGED <<ollama, textCall, sched, batch>>

\* the mailbox provider, the AI adapter and the store answer every call, and
\* the AI adapter answers below the confidence threshold
InitRace ==
  /\ now = 100
  /\ mailbox = {}
  /\ settings = [followupAfterDays |-> 1, syncLookbackDays |-> 1]
  /\ account = [connected |-> TRUE, lastHistoryId |-> NoId]
  /\ db = EmptyStore
  /\ run = [p \in Procs |-> IdleRun]
  /\ ollama = IdleOllama
  /\ textCall = IdleText
  /\ sched = IdleSched
  /\ batch = NoJobs
  /\ hist = [InitHist EXCEPT !.faults = MaxFaults, !.answers = MaxAiAnswers]

SpecRace == InitRace /\ [][NextRace]_vars

\* two runs over an inbox that holds two messages of one thread, with an AI
\* adapter that may answer at or above the confidence threshold (MaxAiAnswers
\* times)
InitRaceAi ==
  /\ now = 100
  /\ mailbox = {"m1", "m3"}
  /\ settings = [followupAfterDays |-> 1, syncLookbackDays |-> 1]
  /\ account = [connected |-> TRUE, lastHistoryId |-> NoId]
  /\ db = EmptyStore
  /\ run = [p \in Procs |-> IdleRun]
  /\ ollama = IdleOllama
  /\ textCall = IdleText
  /\ sched = IdleSched
  /\ batch = NoJobs
  /\ hist = [InitHist EXCEPT !.faults = MaxFaults]

NextRaceAi ==
  \/ \E p \in Procs, fetched \in FetchChoices :
       hist.runs < MaxRaceRuns /\ BeginRun(p, fetched) /\ UNCHANGED <<ollama, textCall, sched, batch>>
  \/ \E p \in Procs, k \in 1..Len(AiOutcomes) : NextMessage(p, k) /\ UNCHANGED <<ollama, textCall, sched, batch>>
  \/ \E p \in Procs : StoreCall(p) /\ UNCHANGED <<ollama, textCall, sched, batch>>
  \/ \E p \in Procs : EndRun(p) /\ UNCHANGED <<ollama, textCall, sched, batch>>
  \/ \E p \in Procs : ReturnRun(p) /\ UNCHANGED <<ollama, textCall, sched, batch>>

SpecRaceAi == InitRaceAi /\ [][NextRaceAi]_vars

(***************************************************************************)
(* Specification: the follow-up scheduler called directly, one call after  *)
(* the other, for one Application                                          *)
(***************************************************************************)
RefreshStatuses == {"received", "interview", "rejected", "offer"}
RefreshDates == {10, 20, Day + 10}

SeedApplication ==
  [id |-> 1, companyName |-> <<"A">>, companyDomain |-> <<"a">>,
   roleTitle |-> UNKNOWN_ROLE, groupSenderDomain |-> <<"a">>, groupSubjectKey |-> <<"k">>,
   status |-> "received", manualStatusLocked |-> FALSE, sourceEmailMessageId |-> NoId,
   firstSeenAt |-> 10, lastActivityAt |-> 10]

InitRefresh ==
  /\ now = 100
  /\ mailbox = {}
  /\ settings = [followupAfterDays |-> 1, syncLookbackDays |-> 1]
  /\ account = [connected |-> TRUE, lastHistoryId |-> NoId]
  /\ \E tasks \in {{}, {[id |-> 1, applicationId |-> 1, dueAt |-> 20, state |-> "open"]}} :
       db = [EmptyStore EXCEPT !.apps = {SeedApplication}, !.nextAppId = 2,
                               !.followups = tasks,
                               !.nextTaskId = 1 + Cardinality(tasks)]
  /\ run = [p \in Procs |-> IdleRun]
  /\ ollama = IdleOllama
  /\ textCall = IdleText
  /\ sched = IdleSched
  /\ batch = NoJobs
  /\ hist = InitHist

\* the caller has written status and lastActivityAt and passes its copy of the row
RefreshCall(id, status, lastActivityAt, followupAfterDays) ==
  LET rows == FindApplicationById(db, id)
      application == [(CHOOSE x \in rows : TRUE) EXCEPT !.status = status,
                                                        !.lastActivityAt = lastActivityAt]
      d == [db EXCEPT !.apps = (@ \ rows) \cup {application}]
  IN /\ rows # {}
     /\ hist.refreshes < MaxRefreshCalls
     /\ db' = refreshFollowupForApplication(d, application, followupAfterDays).d
     /\ hist' = [hist EXCEPT !.refreshes = @ + 1]
     /\ UNCHANGED <<now, mailbox, settings, account, run>>

CompleteCall(id) ==
  /\ \E t \in db.followups : t.id = id /\ t.state = "open"
  /\ db' = completeFollowup(db, id)
  /\ UNCHANGED <<now, mailbox, settings, account, run, hist>>

NextRefresh ==
  \/ \E status \in RefreshStatuses, at \in RefreshDates, days \in 1..MaxSettingDays :
       RefreshCall(1, status, at, days) /\ UNCHANGED <<ollama, textCall, sched, batch>>
  \/ \E id \in 1..(MaxRefreshCalls + 1) : CompleteCall(id) /\ UNCHANGED <<ollama, textCall, sched, batch>>

SpecRefresh == InitRefresh /\ [][NextRefresh]_vars

(***************************************************************************)
(* Specification: calls of extractWithOllama against a server whose        *)
(* answers are given in advance                                            *)
(***************************************************************************)
InitOllama ==
  /\ now = 100
  /\ mailbox = {}
  /\ settings = [followupAfterDays |-> 1, syncLookbackDays |-> 1]
  /\ account = [connected |-> TRUE, lastHistoryId |-> NoId]
  /\ db = EmptyStore
  /\ run = [p \in Procs |-> IdleRun]
  /\ \E env \in EnvValues, server \in [1..MaxReplies -> OllamaReplies] :
       ollama = [IdleOllama EXCEPT !.env = env, !.server = server, !.given = server]
  /\ textCall = IdleText
  /\ sched = IdleSched
  /\ batch = NoJobs
  /\ hist = InitHist

NextOllama ==
  \/ ExtractCall /\ UNCHANGED <<textCall, sched, batch>>
  \/ ExtractAttempt /\ UNCHANGED <<textCall, sched, batch>>

SpecOllama == InitOllama /\ [][NextOllama]_vars

(***************************************************************************)
(* Specification: runs over an inbox that holds every message, with a      *)
(* provider and an AI adapter that may fail on any call                    *)
(***************************************************************************)
\* POST /api/auth/google/disconnect: the account row is deleted
DisconnectGoogle ==
  /\ account.connected
  /\ account' = [connected |-> FALSE, lastHistoryId |-> NoId]
  /\ hist' = [hist EXCEPT !.quiet = FALSE]
  /\ UNCHANGED <<now, mailbox, settings, db, run>>

\* the ids runSync() hands to fetchMessagesByIds in the present state
UnseenIds(lookbackDays) ==
  filterExistingMessageIds(pruneOldTrackedData(db, now, lookbackDays),
                           fetchInboxMessageIdsByQuery(mailbox, now, lookbackDays))

\* a run whose fetch loop gets the provider's answers respond
IntakeRun(p, respond) ==
  /\ hist.runs < MaxIntakeRuns
  /\ BeginRun(p, fetchMessagesByIds(UnseenIds(clampLookbackDays(settings.syncLookbackDays)),
                                    respond))

\* an iteration with any AI result; MaxFaults store calls fail
IntakeMessage(p, k, fault) ==
  /\ hist.faults + (IF fault = "none" THEN 0 ELSE 1) <= MaxFaults
  /\ IterationApplied(p, k, fault, FinishMessage(BeginMessage(run[p], db, k, fault), now),
                      IF fault = "none" THEN 0 ELSE 1, 0)

InitIntake ==
  /\ now = 100
  /\ mailbox = AllMsgIds
  /\ settings = [followupAfterDays |-> 1, syncLookbackDays |-> 1]
  /\ account = [connected |-> TRUE, lastHistoryId |-> NoId]
  /\ db = EmptyStore
  /\ run = [p \in Procs |-> IdleRun]
  /\ ollama = IdleOllama
  /\ textCall = IdleText
  /\ sched = IdleSched
  /\ batch = NoJobs
  /\ hist = InitHist

NextIntake ==
  \/ \E respond \in [AllMsgIds -> FetchResponses] :
       AllIdle /\ IntakeRun("manual", respond) /\ UNCHANGED <<ollama, textCall, sched, batch>>
  \/ \E k \in 1..Len(AiOutcomes), fault \in FaultPoints :
       IntakeMessage("manual", k, fault) /\ UNCHANGED <<ollama, textCall, sched, batch>>
  \/ EndRun("manual") /\ UNCHANGED <<ollama, textCall, sched, batch>>
  \/ ReturnRun("manual") /\ UNCHANGED <<ollama, textCall, sched, batch>>
  \/ AllIdle /\ DisconnectGoogle /\ UNCHANGED <<ollama, textCall, sched, batch>>
  \/ AllIdle /\ Tick /\ UNCHANGED <<ollama, textCall, sched, batch>>

SpecIntake == InitIntake /\ [][NextIntake]_vars

(***************************************************************************)
(* Specification: runs that follow one another over an inbox that holds    *)
(* every message, with a provider whose fetch may fail; the cron task      *)
(* starts a run again and again, and a fetch that fails is explored only   *)
(* while a further run is                                                  *)
(***************************************************************************)
\* the provider's answers to a fetch loop in which at most one request fails
RetryResponses ==
  {[id \in AllMsgIds |-> IF id = one THEN response
                                       ELSE [ok |-> TRUE, code |-> 200, message |-> <<>>]] :
     one \in AllMsgIds, response \in FetchResponses}

RetryRun(p, respond) ==
  /\ (hist.runs + 1 >= MaxIntakeRuns) => \A id \in AllMsgIds : respond[id].ok
  /\ IntakeRun(p, respond)

\* the provider answers every request of the fetch loop with the message
AllFetched == [id \in AllMsgIds |-> [ok |-> TRUE, code |-> 200, message |-> <<>>]]

\* the start of a run whose fetches succeed, the end of a run and its return
RetrySteps ==
  \/ AllIdle /\ RetryRun("manual", AllFetched) /\ UNCHANGED <<ollama, textCall, sched, batch>>
  \/ EndRun("manual") /\ UNCHANGED <<ollama, textCall, sched, batch>>
  \/ ReturnRun("manual") /\ UNCHANGED <<ollama, textCall, sched, batch>>

\* IntakeMessage is enabled: the loop of the run has a message to take
MessageWaits ==
  /\ run["manual"].pc = "loop"
  /\ run["manual"].queue # <<>>

NextRetry ==
  \/ \E respond \in RetryResponses :
       AllIdle /\ RetryRun("manual", respond) /\ UNCHANGED <<ollama, textCall, sched, batch>>
  \/ \E k \in 1..Len(AiOutcomes) :
       IntakeMessage("manual", k, "none") /\ UNCHANGED <<ollama, textCall, sched, batch>>
  \/ EndRun("manual") /\ UNCHANGED <<ollama, textCall, sched, batch>>
  \/ ReturnRun("manual") /\ UNCHANGED <<ollama, textCall, sched, batch>>
  \/ AllIdle /\ Tick /\ UNCHANGED <<ollama, textCall, sched, batch>>

\* the cron task starts runs, the provider recovers and a run goes on: weak
\* fairness of the start of a run whose fetches succeed, of the end and the
\* return of a run, and of the iteration, which is enabled exactly when
\* MessageWaits holds and is taken a bounded number of times
SpecRetry ==
  InitIntake /\ [][NextRetry]_vars /\ WF_vars(RetrySteps) /\ []<>(~MessageWaits)

(***************************************************************************)
(* Specification: runs over a provider that lists the ids in any order and *)
(* may answer the profile request without a change-id                      *)
(***************************************************************************)
\* the orders in which users.messages.list may return the ids
ListOrders(ids) ==
  {q \in [1..Len(ids) -> Range(ids)] : \A i, j \in 1..Len(ids) : q[i] = q[j] => i = j}

\* profile.data.historyId ?? null
ProfileAnswers(box) == {NoId, ProfileHistoryId(box)}

\* what users.messages.get answers in these runs: the message or a quota error
QuotaResponses == {r \in FetchResponses : r.code \in {200, 403}}

ProviderQuery(p, respond, lookbackDays, pruned, listed, historyId) ==
  StartRun(p, fetchMessagesByIds(filterExistingMessageIds(pruned, listed), respond),
           lookbackDays, pruned, listed, historyId,
           filterExistingMessageIds(pruned, listed))

\* a run whose query is answered with the ids in the order listed and with
\* the change-id historyId
ProviderRun(p, listed, historyId, respond) ==
  ProviderQuery(p, respond, clampLookbackDays(settings.syncLookbackDays),
                pruneOldTrackedData(db, now, clampLookbackDays(settings.syncLookbackDays)),
                listed, historyId)

\* resetTrackingData: one transaction deletes every EmailMessage and every
\* Application (their ApplicationEvent and FollowupTask rows go with them)
resetTrackingData(d) ==
  [d EXCEPT !.emails = {}, !.apps = {}, !.events = <<>>, !.followups = {}]

\* POST /api/data/reset-and-sync, first await: the tracked data is deleted and
\* the checkpoint cleared; the handler goes on to runSync() (position "reset")
ResetData(p) ==
  /\ hist.edits < MaxEdits
  /\ hist.runs < MaxRuns
  /\ db' = resetTrackingData(db)
  /\ account' = [account EXCEPT !.lastHistoryId = NoId]
  /\ run' = [run EXCEPT ![p].pc = "reset"]
  /\ hist' = [hist EXCEPT !.edits = @ + 1, !.quiet = FALSE]
  /\ UNCHANGED <<now, mailbox, settings>>

\* a day less 80 seconds: from the initial clock, the cutoff of a one-day
\* lookback then falls between the timestamps of m1 and m2
PartOfDay == Day - 80

\* time passes
Elapse(seconds) ==
  /\ hist.days < MaxDays
  /\ now' = now + seconds
  /\ hist' = [hist EXCEPT !.days = @ + 1, !.quiet = FALSE]
  /\ UNCHANGED <<mailbox, settings, account, db, run>>

InitProvider ==
  /\ now = 100
  /\ mailbox = MsgIds
  /\ settings = [followupAfterDays |-> 1, syncLookbackDays |-> 1]
  /\ account = [connected |-> TRUE, lastHistoryId |-> NoId]
  /\ db = EmptyStore
  /\ run = [p \in Procs |-> IdleRun]
  /\ ollama = IdleOllama
  /\ textCall = IdleText
  /\ sched = IdleSched
  /\ batch = NoJobs
  /\ hist = InitHist

NextProvider ==
  \/ \E listed \in ListOrders(fetchInboxMessageIdsByQuery(
                                  mailbox, now, clampLookbackDays(settings.syncLookbackDays))),
        historyId \in ProfileAnswers(mailbox),
        respond \in [MsgIds -> QuotaResponses] :
       /\ AllIdle \/ run["manual"].pc = "reset"
       /\ ProviderRun("manual", listed, historyId, respond)
       /\ UNCHANGED <<ollama, textCall, sched, batch>>
  \/ \E k \in 1..Len(AiOutcomes), fault \in FaultPoints :
       ProcessMessage("manual", k, fault) /\ UNCHANGED <<ollama, textCall, sched, batch>>
  \/ EndRun("manual") /\ UNCHANGED <<ollama, textCall, sched, batch>>
  \/ ReturnRun("manual") /\ UNCHANGED <<ollama, textCall, sched, batch>>
  \/ AllIdle /\ ResetData("manual") /\ UNCHANGED <<ollama, textCall, sched, batch>>
  \/ \E seconds \in {PartOfDay, Day} :
       AllIdle /\ Elapse(seconds) /\ UNCHANGED <<ollama, textCall, sched, batch>>

SpecProvider == InitProvider /\ [][NextProvider]_vars

(***************************************************************************)
(* Specification: classifyEmailContent and normalizeSubjectForGroup        *)
(* applied to texts drawn from bounded sets                                *)
(***************************************************************************)
\* the pieces a message body is put together from: they carry keywords of
\* the rejected, the rejected and offer, the interview, the assessment, the
\* offer, the received, no rule, and the interview and assessment rules
Fragments == <<
  <<"U","n","f","o","r","t","u","n","a","t","e","l","y",",">>,
  <<"y","o","u"," ","w","e","r","e"," ","n","o","t"," ","s","e","l","e","c","t","e","d">>,
  <<"I","n","t","e","r","v","i","e","w">>,
  <<"c","o","d","i","n","g"," ","c","h","a","l","l","e","n","g","e">>,
  <<"a","n"," ","o","f","f","e","r">>,
  <<"T","h","a","n","k","s"," ","f","o","r"," ","a","p","p","l","y","i","n","g">>,
  <<"H","e","l","l","o">>,
  <<"s","c","h","e","d","u","l","e"," ","a"," ","t","e","s","t">> >>

RECURSIVE JoinFragments(_)
JoinFragments(q) ==
  IF q = <<>> THEN <<>>
  ELSE IF Len(q) = 1 THEN Fragments[q[1]]
  ELSE Fragments[q[1]] \o <<" ">> \o JoinFragments(Tail(q))

\* the bodies of up to MaxFragments fragments
FragmentBodies ==
  {JoinFragments(q) : q \in UNION {[1..n -> 1..Len(Fragments)] : n \in 0..MaxFragments}}

ClassifierSubjects == { <<"A","p","p","l","i","c","a","t","i","o","n"," ","u","p","d","a","t","e">>, <<"J","o","b"," ","o","f","f","e","r">> }

\* the three inputs of classifier.test.ts
ClassifierTests ==
  { [subject |-> <<"A","p","p","l","i","c","a","t","i","o","n"," ","u","p","d","a","t","e">>,
     body |-> <<"U","n","f","o","r","t","u","n","a","t","e","l","y",","," ","w","e"," ","a","r","e"," ","n","o","t"," ","m","o","v","i","n","g"," ","f","o","r","w","a","r","d"," ","w","i","t","h"," ","y","o","u","r"," ","a","p","p","l","i","c","a","t","i","o","n",".">>],
    [subject |-> <<"T","h","a","n","k","s"," ","f","o","r"," ","a","p","p","l","y","i","n","g">>,
     body |-> <<"T","h","a","n","k"," ","y","o","u"," ","f","o","r"," ","a","p","p","l","y","i","n","g","."," ","W","e"," ","r","e","c","e","i","v","e","d"," ","y","o","u","r"," ","a","p","p","l","i","c","a","t","i","o","n"," ","s","u","b","m","i","t","t","e","d"," ","t","o","d","a","y",".">>],
    [subject |-> <<"A","p","p","l","i","c","a","t","i","o","n"," ","a","p","p","r","o","v","e","d">>,
     body |-> <<"W","e"," ","a","r","e"," ","p","l","e","a","s","e","d"," ","t","o"," ","i","n","f","o","r","m"," ","y","o","u"," ","t","h","a","t"," ","y","o","u"," ","w","e","r","e"," ","s","e","l","e","c","t","e","d"," ","a","n","d"," ","a","p","p","r","o","v","e","d"," ","f","o","r"," ","t","h","i","s"," ","r","o","l","e",".">>] }

ClassifierInputs ==
  {[subject |-> s, body |-> b] : s \in ClassifierSubjects, b \in FragmentBodies}
    \cup ClassifierTests

\* subjects that say the same in different ways: a control prefix or none,
\* the phrase in either case with "to" or with "for", and the rest written
\* with different punctuation and letter case.  words: the words of the
\* rest; inWord: a punctuation mark stands between two letters of a word
SubjectPrefixes == { <<>>, <<"R","E",":"," ">>, <<"F","w","d",":"," ">>, <<"F","W",":">>, <<"r","e",":"," "," ">> }

SubjectPhrases ==
  { <<"T","h","a","n","k","s"," ","f","o","r"," ","a","p","p","l","y","i","n","g"," ","t","o">>, <<"T","h","a","n","k","s"," ","f","o","r"," ","a","p","p","l","y","i","n","g"," ","f","o","r">>,
    <<"t","h","a","n","k","s"," ","f","o","r"," ","a","p","p","l","y","i","n","g"," ","t","o">>, <<"T","H","A","N","K","S"," ","F","O","R"," ","A","P","P","L","Y","I","N","G"," ","F","O","R">> }

SubjectRests ==
  { [rest |-> <<" ","A","c","m","e"," ","-"," ","S","o","f","t","w","a","r","e"," ","E","n","g","i","n","e","e","r">>, inWord |-> FALSE,
     words |-> <<<<"a","c","m","e">>, <<"s","o","f","t","w","a","r","e">>, <<"e","n","g","i","n","e","e","r">>>>],
    [rest |-> <<" ","A","c","m","e",","," ","S","o","f","t","w","a","r","e"," ","E","n","g","i","n","e","e","r","!">>, inWord |-> FALSE,
     words |-> <<<<"a","c","m","e">>, <<"s","o","f","t","w","a","r","e">>, <<"e","n","g","i","n","e","e","r">>>>],
    [rest |-> <<" ","a","c","m","e"," ","s","o","f","t","w","a","r","e"," ","e","n","g","i","n","e","e","r">>, inWord |-> FALSE,
     words |-> <<<<"a","c","m","e">>, <<"s","o","f","t","w","a","r","e">>, <<"e","n","g","i","n","e","e","r">>>>],
    [rest |-> <<" ","A","C","M","E"," ","(","S","o","f","t","w","a","r","e"," ","E","n","g","i","n","e","e","r",")">>, inWord |-> FALSE,
     words |-> <<<<"a","c","m","e">>, <<"s","o","f","t","w","a","r","e">>, <<"e","n","g","i","n","e","e","r">>>>],
    [rest |-> <<" ","U","S"," ","B","a","n","k">>, inWord |-> FALSE,
     words |-> <<<<"u","s">>, <<"b","a","n","k">>>>],
    [rest |-> <<" ","U",".","S","."," ","B","a","n","k">>, inWord |-> TRUE,
     words |-> <<<<"u","s">>, <<"b","a","n","k">>>>] }

SubjectVariants ==
  {[subject |-> p \o f \o r.rest, words |-> r.words, inWord |-> r.inWord] :
     p \in SubjectPrefixes, f \in SubjectPhrases, r \in SubjectRests}

TextInputs ==
  {[IdleText EXCEPT !.pc = "input", !.subject = c.subject, !.body = c.body] :
     c \in ClassifierInputs}
  \cup {[IdleText EXCEPT !.pc = "input", !.subject = v.subject, !.words = v.words,
                         !.inWord = v.inWord] : v \in SubjectVariants}

ClassifyCall ==
  /\ textCall.pc = "input"
  /\ textCall' = [textCall EXCEPT
                    !.pc = "classified",
                    !.out = classifyEmailContent(textCall.subject, textCall.body)]
  /\ UNCHANGED <<now, mailbox, settings, account, db, run, ollama, sched, batch, hist>>

NormalizeCall ==
  /\ textCall.pc = "input"
  /\ textCall' = [textCall EXCEPT !.pc = "normalized",
                                  !.out = normalizeSubjectForGroup(textCall.subject)]
  /\ UNCHANGED <<now, mailbox, settings, account, db, run, ollama, sched, batch, hist>>

InitText ==
  /\ now = 100
  /\ mailbox = {}
  /\ settings = [followupAfterDays |-> 1, syncLookbackDays |-> 1]
  /\ account = [connected |-> TRUE, lastHistoryId |-> NoId]
  /\ db = EmptyStore
  /\ run = [p \in Procs |-> IdleRun]
  /\ ollama = IdleOllama
  /\ textCall \in TextInputs
  /\ sched = IdleSched
  /\ batch = NoJobs
  /\ hist = InitHist

NextText ==
  \/ ClassifyCall
  \/ NormalizeCall

SpecText == InitText /\ [][NextText]_vars

(***************************************************************************)
(* Specification: scheduler.ts, startSchedulers() in the listen callback   *)
(* and the rescheduleIfNeeded() calls of PUT /api/settings                 *)
(***************************************************************************)
MaxReschedules == 3

\* the cron expressions a settings row can hold
CronValues == {"c1", "c2"}

\* cron.schedule(expression, callback): a new task, running
NewTask(kind, expression) == [kind |-> kind, cron |-> expression, live |-> TRUE]

\* variant: a task that is replaced keeps running
stopNothing(tasks, task) == tasks

\* stopTask(task): nothing for null, else task.stop(); task.destroy()
stopTask(tasks, task) ==
  IF task = NoTask THEN tasks ELSE [tasks EXCEPT ![task].live = FALSE]

\* createPollTask(settings.pollCron), createDigestTask(settings.digestCron)
\* and the two assignments
createTasks(s, tasks, expression) ==
  [s EXCEPT !.tasks = tasks \o <<NewTask("poll", expression), NewTask("digest", "daily")>>,
            !.pollTask = Len(tasks) + 1,
            !.digestTask = Len(tasks) + 2]

\* startSchedulers() up to its await: getSettings("") reads the row
StartSchedulers ==
  /\ sched.start = "idle"
  /\ sched' = [sched EXCEPT !.start = "await", !.startCron = sched.pollCron]
  /\ UNCHANGED <<now, mailbox, settings, account, db, run, ollama, textCall, batch, hist>>

\* startSchedulers() after its await: the tasks are created, nothing is stopped
StartSchedulersResume ==
  /\ sched.start = "await"
  /\ sched' = [createTasks(sched, sched.tasks, sched.startCron) EXCEPT !.start = "done"]
  /\ UNCHANGED <<now, mailbox, settings, account, db, run, ollama, textCall, batch, hist>>

\* PUT /api/settings up to rescheduleIfNeeded(): updateSettings() has written
\* the row; the server takes requests once it listens
PutSettings(expression) ==
  /\ sched.start # "idle"
  /\ Len(sched.calls) < MaxReschedules
  /\ sched' = [sched EXCEPT !.pollCron = expression,
                            !.calls = Append(@, [pc |-> "called", cron |-> expression,
                                                 overlap |-> FALSE]),
                            !.early = @ \/ sched.start # "done"]
  /\ UNCHANGED <<now, mailbox, settings, account, db, run, ollama, textCall, batch, hist>>

\* rescheduleIfNeeded() up to its await: getSettings("") reads the row, or
\* rejects and the call ends with the tasks as they were
RescheduleIfNeeded(c, read) ==
  /\ c \in 1..Len(sched.calls)
  /\ sched.calls[c].pc = "called"
  /\ sched' = IF read
                THEN [sched EXCEPT !.calls[c] =
                        [pc |-> "await", cron |-> sched.pollCron,
                         overlap |-> \E d \in 1..Len(sched.calls) : sched.calls[d].pc = "await"]]
                ELSE [sched EXCEPT !.calls[c].pc = "failed"]
  /\ UNCHANGED <<now, mailbox, settings, account, db, run, ollama, textCall, batch, hist>>

\* rescheduleIfNeeded() after its await, one synchronous block: both tasks
\* are stopped and destroyed, two new ones are created
RescheduleResume(c) ==
  /\ c \in 1..Len(sched.calls)
  /\ sched.calls[c].pc = "await"
  /\ sched' = [createTasks(sched, stopTask(stopTask(sched.tasks, sched.pollTask), sched.digestTask),
                           sched.calls[c].cron)
                 EXCEPT !.calls[c].pc = "done"]
  /\ UNCHANGED <<now, mailbox, settings, account, db, run, ollama, textCall, batch, hist>>

InitScheduler ==
  /\ now = 100
  /\ mailbox = {}
  /\ settings = [followupAfterDays |-> 1, syncLookbackDays |-> 1]
  /\ account = [connected |-> TRUE, lastHistoryId |-> NoId]
  /\ db = EmptyStore
  /\ run = [p \in Procs |-> IdleRun]
  /\ ollama = IdleOllama
  /\ textCall = IdleText
  /\ sched = IdleSched
  /\ batch = NoJobs
  /\ hist = InitHist

NextScheduler ==
  \/ StartSchedulers
  \/ StartSchedulersResume
  \/ \E expression \in CronValues : PutSettings(expression)
  \/ \E c \in 1..MaxReschedules, read \in BOOLEAN : RescheduleIfNeeded(c, read)
  \/ \E c \in 1..MaxReschedules : RescheduleResume(c)

SpecScheduler == InitScheduler /\ [][NextScheduler]_vars

(***************************************************************************)
(* Specification: POST /api/analyze/batch, the batchJobs map and the       *)
(* background loop of each job; a step of a loop is taken once the promise *)
(* it awaits has settled                                                   *)
(***************************************************************************)
MaxJobs == 2
MaxItems == 2

\* the request bodies that pass the schema: lists of job URLs
UrlLists ==
  UNION {[1..n -> {"u1", "u2"}] : n \in 0..MaxItems}

\* the job as batchJobs.set(batchId, job) stores it
NewJob(urls) ==
  [status |-> "running",
   items |-> [i \in 1..Len(urls) |-> [url |-> urls[i], status |-> "pending"]],
   progress |-> [done |-> 0, total |-> Len(urls)],
   pc |-> "save", cur |-> 0, saved |-> FALSE]

\* for (const item of job.items): the next item is set running and
\* analyzeJobUrl() is called, or the loop is over and the job is done
nextItem(job) ==
  IF job.cur < Len(job.items)
    THEN [job EXCEPT !.items[job.cur + 1].status = "running",
                     !.cur = job.cur + 1, !.pc = "item"]
    ELSE [job EXCEPT !.status = "done", !.pc = "end"]

\* variant: only an analysed item is counted
settleFulfilledOnly(job, fulfilled) ==
  IF fulfilled
    THEN [job EXCEPT !.items[job.cur].status = "done", !.progress.done = @ + 1]
    ELSE [job EXCEPT !.items[job.cur].status = "error"]

\* the body of the loop after await analyzeJobUrl(): the item is done, or in
\* error when the call threw, and progress.done is counted up
settleItem(job, fulfilled) ==
  [job EXCEPT !.items[job.cur].status = IF fulfilled THEN "done" ELSE "error",
              !.progress.done = @ + 1]

\* the handler: the job is stored, the loop is started and not awaited
PostBatch(urls) ==
  /\ Len(batch) < MaxJobs
  /\ batch' = Append(batch, NewJob(urls))
  /\ UNCHANGED <<now, mailbox, settings, account, db, run, ollama, textCall, sched, hist>>

\* the loop after await saveTargetCompanies(), which saved or threw and was
\* caught, up to the first await of the loop
SaveTargets(j, saved) ==
  /\ j \in 1..Len(batch)
  /\ batch[j].pc = "save"
  /\ batch' = [batch EXCEPT ![j] = nextItem([batch[j] EXCEPT !.saved = saved])]
  /\ UNCHANGED <<now, mailbox, settings, account, db, run, ollama, textCall, sched, hist>>

\* the loop after await analyzeJobUrl(), up to its next await or its end
AnalyzeItem(j, fulfilled) ==
  /\ j \in 1..Len(batch)
  /\ batch[j].pc = "item"
  /\ batch' = [batch EXCEPT ![j] = nextItem(settleItem(batch[j], fulfilled))]
  /\ UNCHANGED <<now, mailbox, settings, account, db, run, ollama, textCall, sched, hist>>

\* the steps of the background loops
LoopStep ==
  \/ \E j \in 1..MaxJobs, saved \in BOOLEAN : SaveTargets(j, saved)
  \/ \E j \in 1..MaxJobs, fulfilled \in BOOLEAN : AnalyzeItem(j, fulfilled)

InitBatch ==
  /\ now = 100
  /\ mailbox = {}
  /\ settings = [followupAfterDays |-> 1, syncLookbackDays |-> 1]
  /\ account = [connected |-> TRUE, lastHistoryId |-> NoId]
  /\ db = EmptyStore
  /\ run = [p \in Procs |-> IdleRun]
  /\ ollama = IdleOllama
  /\ textCall = IdleText
  /\ sched = IdleSched
  /\ batch = NoJobs
  /\ hist = InitHist

NextBatch ==
  \/ \E urls \in UrlLists : PostBatch(urls)
  \/ \E j \in 1..MaxJobs, saved \in BOOLEAN : SaveTargets(j, saved)
  \/ \E j \in 1..MaxJobs, fulfilled \in BOOLEAN : AnalyzeItem(j, fulfilled)

\* every promise a loop awaits settles, and the event loop then runs the
\* continuation
SpecBatch == InitBatch /\ [][NextBatch]_vars /\ WF_vars(LoopStep)

(***************************************************************************)
(* Properties                                                              *)
(***************************************************************************)
OpenTasksOf(applicationId) ==
  {t \in db.followups : t.applicationId = applicationId /\ t.state = "open"}

\* run p has just imported the message of run[p].cur
JustImported(p) == run[p].cur.outcome = "imported"

\* run p has returned its result, right after a run with nothing in between
SecondOfTwoRuns(p) == run[p].pc = "done" /\ run[p].backToBack

\* sender domain and subject-derived group key of a mailbox message
SenderDomainOf ==
  [m \in MsgIds |-> normalizeDomain(extractDomainFromEmail(Messages[m].from))]

SubjectKeyOf ==
  [m \in MsgIds |-> normalizeGroupSubjectKey(normalizeSubjectForGroup(Messages[m].subject))]

\* C1 as stated: the second of two runs in succession imports nothing and
\* leaves the numbers of EmailRecord and Application rows as they were.
C1_SecondRunImportsNothing ==
  \A p \in Procs :
    SecondOfTwoRuns(p) =>
      /\ run[p].stats.importedEmails = 0
      /\ Cardinality(db.emails) = hist.lastRun.emails
      /\ Cardinality(db.apps) = hist.lastRun.apps

\* C1 amended: the second of two runs in succession imports no message that
\* had an EmailRecord when the first returned, and when every id its query
\* returns had one it imports nothing and leaves both row counts unchanged.
C1_SecondRunSkipsRecorded ==
  \A p \in Procs :
    SecondOfTwoRuns(p) =>
      /\ run[p].imported \cap hist.lastRun.emailIds = {}
      /\ run[p].queried \subseteq hist.lastRun.emailIds =>
           /\ run[p].stats.importedEmails = 0
           /\ Cardinality(db.emails) = hist.lastRun.emails
           /\ Cardinality(db.apps) = hist.lastRun.apps

C1_Witness ==
  \E p \in Procs :
    /\ SecondOfTwoRuns(p)
    /\ run[p].queried # {}
    /\ run[p].queried \subseteq hist.lastRun.emailIds
    /\ run[p].stats.scanned > 0
    /\ run[p].stats.importedEmails = 0

\* C2: in every reachable state, two runs interleaving included, no two
\* Application rows carry the same (groupSenderDomain, groupSubjectKey).
C2_OneApplicationPerGroup ==
  \A a, b \in db.apps :
    (a.groupSenderDomain = b.groupSenderDomain /\ a.groupSubjectKey = b.groupSubjectKey)
      => a = b

\* a run looked the group up, found none, and its create was rejected because
\* the other run had created the row in between
C2_Witness ==
  \E p \in Procs :
    /\ run[p].cur.m \in MsgIds
    /\ run[p].cur.outcome = "failed"
    /\ run[p].cur.existing = {}
    /\ run[p].cur.emailId # NoId
    /\ FindApplicationByGroup(db, Cur(run[p]).groupSenderDomain,
                              Cur(run[p]).groupSubjectKey) # {}

\* C3 as stated: with no run in progress and no failed call, the EmailRecords
\* of two messages with the same sender domain and subjects that normalize to
\* the same key are linked to the same Application.
C3_SameSubjectKeySameApplication ==
  (AllIdle /\ hist.faults = 0) =>
    \A e1, e2 \in db.emails :
      (/\ e1.gmailMessageId # e2.gmailMessageId
       /\ SenderDomainOf[e1.gmailMessageId] = SenderDomainOf[e2.gmailMessageId]
       /\ SubjectKeyOf[e1.gmailMessageId] = SubjectKeyOf[e2.gmailMessageId])
        => (e1.applicationId # NoId /\ e1.applicationId = e2.applicationId)

\* C3 amended: an imported message's EmailRecord is linked to the Application
\* of its resolved group, and two linked EmailRecords that store the same
\* (groupSenderDomain, groupSubjectKey) are linked to the same Application.
C3_SameStoredKeySameApplication ==
  /\ \A p \in Procs :
       JustImported(p) =>
         \E e \in db.emails, a \in db.apps :
           /\ e.gmailMessageId = run[p].cur.m
           /\ e.applicationId = a.id
           /\ a.groupSenderDomain = e.groupSenderDomain
           /\ a.groupSubjectKey = e.groupSubjectKey
  /\ \A e1, e2 \in db.emails :
       (/\ e1.applicationId # NoId
        /\ e2.applicationId # NoId
        /\ e1.groupSenderDomain = e2.groupSenderDomain
        /\ e1.groupSubjectKey = e2.groupSubjectKey)
         => e1.applicationId = e2.applicationId

\* the later of two messages of one stored group has just been imported into
\* the Application of the earlier one
C3_Witness ==
  \E p \in Procs, e1, e2 \in db.emails :
    /\ JustImported(p)
    /\ e2.gmailMessageId = run[p].cur.m
    /\ e1.gmailMessageId # e2.gmailMessageId
    /\ e1.groupSenderDomain = e2.groupSenderDomain
    /\ e1.groupSubjectKey = e2.groupSubjectKey
    /\ e1.applicationId # NoId
    /\ e1.applicationId = e2.applicationId

\* C4: after any sequence of refresh calls made one after the other, with any
\* status, lastActivityAt and window, an Application has at most one open
\* FollowupTask.
C4_AtMostOneOpenTask ==
  \A a \in db.apps : Cardinality(OpenTasksOf(a.id)) <= 1

\* after several calls a task has been closed and another one is open
C4_Witness ==
  /\ hist.refreshes >= 2
  /\ \E t, u \in db.followups :
       /\ t.applicationId = u.applicationId
       /\ t.state = "open"
       /\ u.state = "done"

\* C5 as stated: at any time, two interleaving runs included, any two open
\* FollowupTasks of one Application are the same task.
C5_OneOpenTaskWhenInterleaved ==
  \A t, u \in db.followups :
    (t.applicationId = u.applicationId /\ t.state = "open" /\ u.state = "open")
      => t.id = u.id

\* C6 as stated: between operations, an Application has an open FollowupTask
\* exactly when its status is not rejected, offer or withdrawn, and the task
\* is due at lastActivityAt plus the configured window, within one second.
C6_FollowupMatchesStatusAlways ==
  AllIdle =>
    \A a \in db.apps :
      /\ (OpenTasksOf(a.id) # {}) <=> (a.status \notin {"rejected", "offer", "withdrawn"})
      /\ \A t \in OpenTasksOf(a.id) :
           Abs(t.dueAt - (a.lastActivityAt + settings.followupAfterDays * Day))
             <= DriftTolerance

\* C6 amended: right after a message has been imported, its Application has
\* an open FollowupTask exactly when its status is not rejected, offer or
\* withdrawn, and the task is due at lastActivityAt plus the window the run
\* read, within one second.
C6_FollowupMatchesStatusAfterImport ==
  \A p \in Procs :
    JustImported(p) =>
      \A x \in run[p].cur.application :
        \E a \in db.apps :
          /\ a.id = x.id
          /\ (OpenTasksOf(a.id) # {}) <=> (a.status \notin {"rejected", "offer", "withdrawn"})
          /\ \A t \in OpenTasksOf(a.id) :
               Abs(t.dueAt - (a.lastActivityAt + run[p].followupAfterDays * Day))
                 <= DriftTolerance

\* the import found an open task and moved its due date
C6_Witness ==
  \E p \in Procs :
    /\ JustImported(p)
    /\ \E x \in run[p].cur.application, old \in run[p].cur.openTask, t \in db.followups :
         /\ t.id = old.id
         /\ t.applicationId = x.id
         /\ t.state = "open"
         /\ t.dueAt # old.dueAt

\* the import of run p updated a locked Application whose status differs from
\* the status resolved for the message
LockedImport(p) ==
  /\ JustImported(p)
  /\ \E x \in run[p].cur.existing :
       x.manualStatusLocked /\ x.status # Cur(run[p]).status

\* C7: importing a message into a manually locked Application whose status
\* differs from the resolved one leaves the status, sets lastActivityAt to the
\* message's timestamp and records an email_received event.
C7_ManualLockRespected ==
  \A p \in Procs :
    LockedImport(p) =>
      \A x \in run[p].cur.existing :
        /\ \E a \in db.apps :
             /\ a.id = x.id
             /\ a.status = x.status
             /\ a.lastActivityAt = Messages[run[p].cur.m].internalDate
        /\ db.events # <<>>
        /\ db.events[Len(db.events)] =
             [applicationId |-> x.id, eventType |-> "email_received",
              eventAt |-> Messages[run[p].cur.m].internalDate,
              emailMessageId |-> run[p].cur.emailId]

C7_Witness == \E p \in Procs : LockedImport(p)

\* the pipeline stages in their order; 0 for a status outside the pipeline
PipelineStage(status) ==
  CASE status = "received" -> 1
    [] status = "assessment" -> 2
    [] status = "interview" -> 3
    [] status = "offer" -> 4
    [] OTHER -> 0

\* C8 as stated: importing a further message into an Application that is not
\* locked never moves its status to an earlier pipeline stage (checked where
\* no AI answer has reached the confidence threshold).
C8_StatusNeverMovesBack ==
  \A p \in Procs :
    (JustImported(p) /\ hist.answers = 0) =>
      \A x \in run[p].cur.existing, a \in db.apps :
        (/\ a.id = x.id
         /\ ~x.manualStatusLocked
         /\ PipelineStage(x.status) > 0
         /\ PipelineStage(a.status) > 0)
          => PipelineStage(a.status) >= PipelineStage(x.status)

\* C9 as stated: the first run, over a mailbox holding the two Acme messages,
\* imports both and ends with one Application in status interview, both
\* EmailRecords linked to it, and the events application_received then
\* status_changed.
C9_AcmeScenarioOneApplication ==
  \A p \in Procs :
    (/\ run[p].pc = "done"
     /\ hist.runs = 1
     /\ mailbox = {"m1", "m2"}
     /\ run[p].imported = {"m1", "m2"})
      => /\ Cardinality(db.apps) = 1
         /\ Cardinality(db.emails) = 2
         /\ \A a \in db.apps :
              /\ a.status = "interview"
              /\ \A e \in db.emails : e.applicationId = a.id
         /\ [i \in 1..Len(db.events) |-> db.events[i].eventType]
              = <<"application_received", "status_changed">>

\* C10 as stated: over runs that do not overlap, with lookback changes and
\* pruning in between, no message id is imported more than once.
C10_ImportedAtMostOnce ==
  \A m \in MsgIds : hist.processed[m] <= 1

\* the adapter is switched on
AdapterEnabled == OLLAMA_ENABLED(ollama.env)

ErrorKinds == {"network", "status", "abort"}

\* a body that holds no JSON object, or an object outside the schema
Malformed(reply) ==
  /\ reply.kind = "body"
  /\ \/ extractJsonCandidate(trim(reply.response)) = NoCandidate
     \/ JSONparse(extractJsonCandidate(trim(reply.response))).threw
     \/ ~SchemaAccepts(JSONparse(extractJsonCandidate(trim(reply.response))).value)

WellFormed(reply) == reply.kind = "body" /\ ~Malformed(reply)

\* C11: extractWithOllama calls a second time whenever the first response is
\* not JSON or does not fit the schema, never calls more than twice, returns
\* ok:true when the second response is valid and ok:false with an error
\* reason when the second response fails as well
C11_MalformedIsRetriedOnce ==
  (ollama.pc = "returned" /\ AdapterEnabled) =>
    /\ ollama.calls <= 2
    /\ Malformed(ollama.given[1]) => ollama.calls = 2
    /\ (Malformed(ollama.given[1]) /\ WellFormed(ollama.given[2])) => ollama.result.ok
    /\ (Malformed(ollama.given[1]) /\ ~WellFormed(ollama.given[2])) =>
         (~ollama.result.ok /\ ollama.result.error # <<>>)

\* C12: extractWithOllama always ends in a result; a request that ends in a
\* network error, a non-2xx status or the abort of the timeout is the last
\* request of the call, and the result is ok:false with that error's message
C12_ErrorEndsCallWithFailure ==
  /\ ollama.pc \in {"idle", "attempt", "returned"}
  /\ \A i \in 1..ollama.calls :
       ollama.given[i].kind \in ErrorKinds =>
         /\ i = ollama.calls
         /\ ollama.pc = "returned"
         /\ ~ollama.result.ok
         /\ ollama.result.error = callOllama(ollama.given[i]).message
  /\ (ollama.pc = "returned" /\ AdapterEnabled /\ ollama.given[1].kind \in ErrorKinds) =>
       ollama.calls = 1

C12_Witness ==
  /\ ollama.pc = "returned"
  /\ ollama.calls = 1
  /\ ollama.given[1].kind = "abort"
  /\ ~ollama.result.ok
  /\ ollama.result.error = ERROR_ABORTED

\* OLLAMA_ENABLED is set to a value that means off
DisabledByConfiguration ==
  ollama.env.set /\ ollama.env.value \in {<<"f","a","l","s","e">>, <<"0">>, <<>>}

\* C13: with the adapter disabled by configuration, a call makes no request
\* and returns ok:false with the error "disabled"
C13_DisabledMakesNoCall ==
  DisabledByConfiguration =>
    /\ ollama.calls = 0
    /\ ollama.pc # "attempt"
    /\ ollama.pc = "returned" =>
         (~ollama.result.ok
          /\ includes(toLowerCase(ollama.result.error), <<"d","i","s","a","b","l","e","d">>))

\* the AI result with index k is a timeout abort
IsAbortResult(k) == ~AiOutcomes[k].ok /\ AiOutcomes[k].error = ERROR_ABORTED

\* the AI result with index k reaches the confidence threshold
IsConfidentResult(k) ==
  AiOutcomes[k].ok /\ AiOutcomes[k].confidence >= OLLAMA_MIN_CONFIDENCE

\* two timeout aborts in a row at positions i and i + 1 of a run's AI results
AbortPairAt(t, i) == IsAbortResult(t[i]) /\ IsAbortResult(t[i + 1])

\* C14: within one run, after two consecutive AI calls that ended in a
\* timeout abort no later message gets an AI call, every message without a
\* confident AI result is counted in aiFallbackUsed, and the run that follows
\* a run that gave up on AI calls the AI adapter again
C14_BreakerOpensAfterTwoAborts ==
  \A p \in Procs :
    /\ \A i \in 1..(Len(run[p].aiTrail) - 1) :
         AbortPairAt(run[p].aiTrail, i) =>
           \A j \in (i + 2)..Len(run[p].aiTrail) : run[p].aiTrail[j] = AiSkippedForRun
    /\ run[p].stats.aiFallbackUsed =
         Cardinality({i \in 1..Len(run[p].aiTrail) : ~IsConfidentResult(run[p].aiTrail[i])})
    /\ (hist.lastRun.breakerOpen /\ run[p].aiTrail # <<>>) =>
         run[p].aiTrail[1] \in AiCallResults

C14_Witness ==
  /\ Len(run["manual"].aiTrail) = 3
  /\ AbortPairAt(run["manual"].aiTrail, 1)
  /\ run["manual"].aiTrail[3] = AiSkippedForRun
  /\ run["manual"].stats.aiFallbackUsed = 3
  /\ run["manual"].cur.outcome = "imported"

\* C15: two timeout aborts of a run with another AI call between them, a
\* success or a failure that is not a timeout, do not make the run give up
\* on AI: only aborts in a row do
C15_OnlyConsecutiveAbortsCount ==
  \A p \in Procs :
    (\A i \in 1..(Len(run[p].aiTrail) - 1) : ~AbortPairAt(run[p].aiTrail, i)) =>
      ~run[p].skipAiForRun

\* the iteration run p has just finished reached the AI stage with result k
AiStageTaken(p, k) ==
  /\ run[p].pc = "loop"
  /\ run'[p].pc = "loop"
  /\ run'[p].queue = Tail(run[p].queue)
  /\ run'[p].aiTrail = Append(run[p].aiTrail, k)

\* C16: a message is left out because of the AI result exactly when the
\* result has include:false and reaches the confidence threshold; it then
\* adds no EmailRecord, Application or ApplicationEvent and adds 1 to
\* aiSkipped; an include:false result below the threshold leaves no message out
C16_OnlyConfidentExclusionSkips ==
  [][\A p \in Procs, k \in AiCallResults :
       AiStageTaken(p, k) =>
         IF AiOutcomes[k].ok /\ ~AiOutcomes[k].include
            /\ AiOutcomes[k].confidence >= OLLAMA_MIN_CONFIDENCE
           THEN /\ db' = db
                /\ run'[p].stats.aiSkipped = run[p].stats.aiSkipped + 1
           ELSE /\ run'[p].stats.aiSkipped = run[p].stats.aiSkipped
                /\ run'[p].cur.fault = "none" =>
                     \E e \in db'.emails : /\ e.gmailMessageId = run'[p].cur.m
                                           /\ e.applicationId # NoId]_vars

C16_Witness ==
  /\ run["manual"].pc = "loop"
  /\ run["manual"].cur.pc = "end"
  /\ run["manual"].aiTrail # <<>>
  /\ AiOutcomes[run["manual"].aiTrail[Len(run["manual"].aiTrail)]].ok
  /\ ~AiOutcomes[run["manual"].aiTrail[Len(run["manual"].aiTrail)]].include
  /\ AiOutcomes[run["manual"].aiTrail[Len(run["manual"].aiTrail)]].confidence
       >= OLLAMA_MIN_CONFIDENCE
  /\ run["manual"].stats.aiSkipped = 1
  /\ FindEmailByGmailId(db, run["manual"].cur.m) = {}

\* the sender domain runSync() computes for a message
SenderDomains ==
  [m \in AllMsgIds |->
     normalizeDomain(extractDomainFromEmail(extractEmailAddress(Messages[m].from)))]

SenderDomainOfMessage(m) == SenderDomains[m]

\* C17: a message whose sender domain is on the noise-domain denylist leaves
\* no EmailRecord, Application or ApplicationEvent, focus phrase or not
C17_NoiseDomainNeverIngested ==
  /\ \A e \in db.emails : e.gmailMessageId \notin NoiseIds
  /\ \A a \in db.apps : a.groupSenderDomain \notin {SenderDomainOfMessage(m) : m \in NoiseIds}
  /\ \A p \in Procs :
       (run[p].cur.m \in NoiseIds /\ run[p].cur.pc = "end") =>
         (run[p].cur.outcome = "skipped" /\ run[p].cur.m \notin run[p].imported)

C17_Witness ==
  /\ run["manual"].pc = "loop"
  /\ run["manual"].cur.m \in NoiseIds
  /\ run["manual"].cur.pc = "end"
  /\ SenderDomainOfMessage(run["manual"].cur.m) \in NOISE_DOMAINS
  /\ MatchesFocusTerms[run["manual"].cur.m]
  /\ db.apps # {}

\* C18: runSync() returns ok:false exactly when no account is connected, and
\* then at once: all counters zero, nothing pruned, fetched or written, no
\* checkpoint update
C18_NotOkOnlyWithoutAccount ==
  [][\A p \in Procs :
       (run[p].pc # "done" /\ run'[p].pc = "done") =>
         /\ run'[p].ok <=> account.connected
         /\ ~account.connected =>
              /\ run[p].pc = "idle"
              /\ run'[p].stats = ZeroStats
              /\ run'[p].fetchedIds = {}
              /\ db' = db
              /\ account' = account]_vars

C18_Witness ==
  /\ run["manual"].pc = "done"
  /\ ~run["manual"].ok
  /\ ~account.connected
  /\ run["manual"].stats = ZeroStats
  /\ db.emails # {}
  /\ pruneOldTrackedData(db, now, clampLookbackDays(settings.syncLookbackDays)) # db

\* C19: an exception in the iteration of one message does not end the run:
\* the loop goes on with the messages that are left, every fetched message
\* has had its iteration when the run ends, and the run returns ok:true
C19_FailureDoesNotAbortRun ==
  \A p \in Procs :
    run[p].failed # {} =>
      /\ run[p].pc \in {"loop", "done"}
      /\ run[p].failed \subseteq run[p].fetchedIds
      /\ run[p].pc = "done" =>
           /\ run[p].ok
           /\ run[p].queue = <<>>
           /\ run[p].reason \in {"completed", "partial"}

C19_Witness ==
  /\ run["manual"].pc = "done"
  /\ run["manual"].ok
  /\ \E f \in run["manual"].failed, m \in run["manual"].imported :
       Messages[f].internalDate < Messages[m].internalDate

\* C20: when the provider answers a fetch with a rate-limit or quota error,
\* the fetch loop stops, the messages fetched before are processed, the
\* checkpoint is updated and the run returns ok:true with the reason that
\* says the sync was partial
C20_RateLimitEndsFetchPartially ==
  \A p \in Procs :
    run[p].rateLimited =>
      /\ run[p].quotaLimited
      /\ run[p].pc = "done" =>
           /\ run[p].ok
           /\ run[p].reason = "partial"
           /\ run[p].queue = <<>>
           /\ account.lastHistoryId = run[p].newestHistoryId

\* C21: the step in which a run returns ok:true leaves as account checkpoint
\* the change-id the provider returned to that run, also when the run found
\* no unseen message; when the provider returned no change-id the checkpoint
\* is the one that was stored before, and no step inside the loop touches it.
C21_CheckpointStored ==
  [][\A p \in Procs :
       /\ (run[p].pc # "done" /\ run'[p].pc = "done" /\ run'[p].ok) =>
            account'.lastHistoryId =
              IF run'[p].newestHistoryId # NoId THEN run'[p].newestHistoryId
              ELSE account.lastHistoryId
       /\ run'[p].pc = "loop" => account' = account]_vars

\* a run that found every listed id already stored has returned, and the
\* change-id of its profile request is the checkpoint
C21_Witness ==
  \E p \in Procs :
    /\ run[p].pc = "done" /\ run[p].ok
    /\ run[p].reason = "no_new"
    /\ run[p].stats.scanned > 0
    /\ run[p].newestHistoryId # NoId
    /\ account.lastHistoryId = run[p].newestHistoryId

\* the entries of run p's writes that went to Application a
WrittenTo(p, a) == {w \in run[p].written : w.applicationId = a.id}

\* the entry of the message with the latest provider timestamp
LatestOf(W) ==
  CHOOSE w \in W : \A v \in W : Messages[v.m].internalDate <= Messages[w.m].internalDate

\* C22: whatever order the provider returned the messages in, the loop takes
\* them in ascending order of their provider timestamp (the message in hand
\* is no later than any message still queued, and the queue is ascending),
\* and when the run returns every unlocked Application the run wrote to has
\* the status resolved from the latest of the messages written to it.
C22_ProcessedInTimestampOrder ==
  \A p \in Procs :
    /\ run[p].pc = "loop" =>
         /\ \A i, j \in 1..Len(run[p].queue) :
              i < j => Messages[run[p].queue[i]].internalDate
                         <= Messages[run[p].queue[j]].internalDate
         /\ run[p].cur.m # "" =>
              \A i \in 1..Len(run[p].queue) :
                Messages[run[p].cur.m].internalDate <= Messages[run[p].queue[i]].internalDate
    /\ (run[p].pc = "done" /\ run[p].ok) =>
         \A a \in db.apps :
           (~a.manualStatusLocked /\ WrittenTo(p, a) # {}) =>
             a.status = LatestOf(WrittenTo(p, a)).status

\* the provider returned the messages newest first, the run wrote two of them
\* with different resolved statuses to one unlocked Application and returned
C22_Witness ==
  \E p \in Procs :
    /\ run[p].pc = "done" /\ run[p].ok
    /\ ~run[p].fetchedInOrder
    /\ \E a \in db.apps :
         /\ ~a.manualStatusLocked
         /\ \E v, w \in WrittenTo(p, a) : v.status # w.status

\* the EmailRecords ingested into Application a
EmailsOf(a) == {e \in db.emails : e.applicationId = a.id}

\* C23: after any sequence of runs, a quota-limited run followed by a run
\* that picks up the older messages included, the lastActivityAt of every
\* Application is the timestamp of the freshest e-mail ingested into it.
C23_LastActivityIsFreshest ==
  AllIdle =>
    \A a \in db.apps :
      \A e \in EmailsOf(a) : e.receivedAt <= a.lastActivityAt

\* the events a step appends to the ApplicationEvent table
EventsAdded == SubSeq(db'.events, Len(db.events) + 1, Len(db'.events))

\* the event type the contract gives a message resolved as r, from the
\* Applications of its group before the step
ContractEventType(r) ==
  LET g == FindApplicationByGroup(db, r.groupSenderDomain, r.groupSubjectKey)
  IN IF g = {} THEN "application_received"
     ELSE IF \E a \in g : ~a.manualStatusLocked /\ a.status # r.status
       THEN "status_changed"
     ELSE "email_received"

\* run p takes one message through a whole iteration of its loop
IterationOf(p) ==
  /\ run[p].pc = "loop" /\ run'[p].pc = "loop"
  /\ Len(run'[p].queue) < Len(run[p].queue)

\* C24: an iteration that imports its message records exactly one
\* ApplicationEvent, of the type the contract gives it (application_received
\* without an Application of the group, status_changed for an unlocked one
\* whose status differs, email_received otherwise), and every iteration adds
\* to statusesUpdated the number of status_changed events it records.
C24_OneEventPerImport ==
  [][\A p \in Procs :
       IterationOf(p) =>
         /\ run'[p].cur.outcome = "imported" =>
              /\ Len(EventsAdded) = 1
              /\ EventsAdded[1].eventType =
                   ContractEventType(Resolved[run'[p].cur.m][run'[p].cur.ai])
         /\ run'[p].stats.statusesUpdated =
              run[p].stats.statusesUpdated
                + Cardinality({i \in 1..Len(EventsAdded) :
                                 EventsAdded[i].eventType = "status_changed"})]_vars

\* the lowercased subject and body the classifier scans
Combined == toLowerCase(textCall.subject \o <<"\n">> \o textCall.body)

\* the text holds a keyword of the rule of this status
HasKeywordOf(status) ==
  \E i \in 1..Len(RULE_DEFINITIONS) :
    /\ RULE_DEFINITIONS[i].status = status
    /\ \E k \in 1..Len(RULE_DEFINITIONS[i].keywords) :
         includes(Combined, RULE_DEFINITIONS[i].keywords[k])

ClaimedOrder == <<"rejected", "interview", "assessment", "offer", "received">>

\* C25: classifyEmailContent returns the status of the first rule, in the
\* order rejected, interview, assessment, offer, received, that has a keyword
\* in the lowercased subject+body, whatever later rules match; a text with a
\* rejection keyword is classified rejected with confidence above 0.5.
C25_FirstRuleInOrderWins ==
  textCall.pc = "classified" =>
    /\ \A i \in 1..Len(ClaimedOrder) :
         (HasKeywordOf(ClaimedOrder[i])
            /\ \A j \in 1..(i - 1) : ~HasKeywordOf(ClaimedOrder[j]))
           => textCall.out.predictedStatus = ClaimedOrder[i]
    /\ HasKeywordOf("rejected") =>
         (textCall.out.predictedStatus = "rejected" /\ textCall.out.confidence > 50)

\* a text with a rejection keyword and keywords of two later rules has been
\* classified rejected
C25_Witness ==
  /\ textCall.pc = "classified"
  /\ HasKeywordOf("rejected") /\ HasKeywordOf("offer") /\ HasKeywordOf("received")
  /\ textCall.out.predictedStatus = "rejected"
  /\ textCall.out.confidence > 50

C27_ResultOfClassifier ==
  textCall.pc = "classified" =>
    /\ (\A i \in 1..Len(ClaimedOrder) : ~HasKeywordOf(ClaimedOrder[i])) =>
         textCall.out = [predictedStatus |-> "unclassified", confidence |-> 0,
                         isConfirmation |-> FALSE, needsReview |-> TRUE]
    /\ (\E i \in 1..Len(ClaimedOrder) : HasKeywordOf(ClaimedOrder[i])) =>
         /\ textCall.out.confidence = 90
         /\ ~textCall.out.needsReview
         /\ textCall.out.predictedStatus \in {ClaimedOrder[i] : i \in 1..Len(ClaimedOrder)}
    /\ textCall.out.isConfirmation <=> textCall.out.predictedStatus = "received"

\* the confirmation of classifier.test.ts has been classified
C27_Witness ==
  /\ textCall.pc = "classified"
  /\ textCall.subject = <<"T","h","a","n","k","s"," ","f","o","r"," ","a","p","p","l","y","i","n","g">>
  /\ textCall.body # <<>>
  /\ textCall.out.isConfirmation
  /\ textCall.out.confidence = 90

\* the words joined by "-"
RECURSIVE Dashed(_)
Dashed(words) ==
  IF words = <<>> THEN <<>>
  ELSE IF Len(words) = 1 THEN words[1]
  ELSE words[1] \o <<"-">> \o Dashed(Tail(words))

C29_DeletedApplicationTakesItsRows ==
  [][\A a \in db.apps :
       FindApplicationById(db', a.id) = {} =>
         /\ \A e \in db.emails :
              e.applicationId = a.id => \A f \in db'.emails : f.id # e.id
         /\ \A i \in 1..Len(db'.events) : db'.events[i].applicationId # a.id
         /\ \A t \in db'.followups : t.applicationId # a.id]_vars

\* the open FollowupTasks of an Application in a store
OpenTasksIn(d, applicationId) ==
  {t \in d.followups : t.applicationId = applicationId /\ t.state = "open"}

\* C30: in every reachable state, for every Application and follow-up window,
\* a second call of refreshFollowupForApplication with the same Application
\* and window leaves the store as the first call left it; after the first
\* call on a non-terminal Application there is an open task due at
\* lastActivityAt plus the window, within one second, and after the first
\* call on a terminal Application the task that was open is done and no task
\* was created.
C30_RefreshIsIdempotent ==
  \A a \in db.apps, days \in 1..MaxSettingDays :
    LET first == refreshFollowupForApplication(db, a, days).d
        second == refreshFollowupForApplication(first, a, days).d
        due == a.lastActivityAt + days * Day
    IN /\ second = first
       /\ a.status \notin {"rejected", "offer", "withdrawn"} =>
            \E t \in OpenTasksIn(first, a.id) :
              /\ t.dueAt - due <= DriftTolerance
              /\ due - t.dueAt <= DriftTolerance
       /\ a.status \in {"rejected", "offer", "withdrawn"} =>
            /\ \A t \in FindFirstOpenTask(db, a.id) :
                 \E u \in first.followups : u.id = t.id /\ u.state = "done"
            /\ {t.id : t \in first.followups} = {t.id : t \in db.followups}

\* C35: in the stats a run returns: importedEmails =
\* applicationsCreatedOrUpdated; statusesUpdated, needsReview <= importedEmails;
\* aiSkipped <= aiProcessed; importedEmails + aiSkipped <= aiProcessed +
\* aiFallbackUsed <= number of fetched unseen messages <= scanned.
C35_StatsAreConsistent ==
  \A p \in Procs :
    run[p].pc = "done" =>
      LET stats == run[p].stats
      IN /\ stats.importedEmails = stats.applicationsCreatedOrUpdated
         /\ stats.statusesUpdated <= stats.importedEmails
         /\ stats.needsReview <= stats.importedEmails
         /\ stats.aiSkipped <= stats.aiProcessed
         /\ stats.importedEmails + stats.aiSkipped
              <= stats.aiProcessed + stats.aiFallbackUsed
         /\ stats.aiProcessed + stats.aiFallbackUsed <= Cardinality(run[p].fetchedIds)
         /\ Cardinality(run[p].fetchedIds) <= stats.scanned

\* a run that imported with and without a confident AI result, skipped a
\* message on the AI's word, changed a status, and lost messages before the
\* AI stage and to a failed fetch
C35_Witness ==
  LET stats == run["manual"].stats
  IN /\ run["manual"].pc = "done"
     /\ stats.importedEmails >= 1
     /\ stats.aiSkipped >= 1
     /\ stats.aiFallbackUsed >= 1
     /\ stats.statusesUpdated >= 1
     /\ stats.aiProcessed + stats.aiFallbackUsed < Cardinality(run["manual"].fetchedIds)
     /\ Cardinality(run["manual"].fetchedIds) < stats.scanned

\* the cron tasks of a kind that are running
LiveTasks(kind) ==
  {i \in 1..Len(sched.tasks) : sched.tasks[i].kind = kind /\ sched.tasks[i].live}

\* C39: once startSchedulers() has run, rescheduleIfNeeded() calls made after
\* it, overlapping or not, leave exactly one running poll task and one running
\* digest task, the ones pollTask and digestTask hold; every task that was
\* replaced is stopped and destroyed
C39_OneLiveTaskOfEachKind ==
  (sched.start = "done" /\ ~sched.early) =>
    /\ LiveTasks("poll") = {sched.pollTask}
    /\ LiveTasks("digest") = {sched.digestTask}
    /\ \A c \in 1..Len(sched.calls) :
         sched.calls[c].pc = "done" => Len(sched.tasks) >= 4

C39_Witness ==
  /\ sched.start = "done"
  /\ ~sched.early
  /\ \E c, d \in 1..Len(sched.calls) :
       /\ c # d
       /\ sched.calls[c].pc = "done"
       /\ sched.calls[d].pc = "done"
       /\ sched.calls[d].overlap
  /\ Len(sched.tasks) = 6
  /\ Cardinality(LiveTasks("poll")) = 1

\* the items of a job are taken one at a time in list order
InListOrder(job) ==
  /\ job.progress.total = Len(job.items)
  /\ job.progress.done <= job.progress.total
  /\ \A i \in 1..Len(job.items) :
       /\ i <= job.progress.done => job.items[i].status \in {"done", "error"}
       /\ i = job.progress.done + 1 => job.items[i].status \in {"pending", "running"}
       /\ i > job.progress.done + 1 => job.items[i].status = "pending"
  /\ Cardinality({i \in 1..Len(job.items) : job.items[i].status = "running"}) <= 1
  /\ job.status = "done" => job.progress.done = job.progress.total

\* the job is over
JobDone(j) ==
  /\ j \in 1..Len(batch)
  /\ batch[j].status = "done"
  /\ batch[j].progress.done = batch[j].progress.total
  /\ \A i \in 1..Len(batch[j].items) : batch[j].items[i].status \in {"done", "error"}

\* C40: every job created by POST /api/analyze/batch reaches status done with
\* progress.done = progress.total, whatever items fail; its items are analysed
\* one at a time in list order, each ends done or error, and progress.done
\* never exceeds progress.total
C40_BatchJobCompletes ==
  /\ [](\A j \in 1..Len(batch) : InListOrder(batch[j]))
  /\ \A j \in 1..MaxJobs : (j \in 1..Len(batch)) ~> JobDone(j)

C40_Witness ==
  /\ Len(batch) = 2
  /\ JobDone(1)
  /\ Len(batch[1].items) = 2
  /\ batch[1].items[1].status = "error"
  /\ batch[1].items[2].status = "done"
  /\ ~batch[1].saved
  /\ batch[2].pc = "item"

\* C37: a message whose processing failed in one run, also after its
\* EmailMessage row was written, is processed again by a later run while it
\* is inside the lookback window: when a run has returned ok, every message
\* its query matched and it did not take has a row with an Application
C37_FailedMessageIsProcessedAgain ==
  \A p \in Procs :
    (run[p].pc = "done" /\ run[p].ok) =>
      \A e \in db.emails :
        (e.gmailMessageId \in run[p].queried /\ e.gmailMessageId \notin run[p].fetchedIds) =>
          e.applicationId # NoId

\* a run's query matched m and its fetch did not return it
Missed(m) ==
  \E p \in Procs :
    /\ run[p].pc \in {"loop", "done"}
    /\ m \in run[p].queried
    /\ m \notin run[p].fetchedIds
    /\ FindEmailByGmailId(db, m) = {}

\* a run has fetched m and has finished its loop over what it fetched
FetchedAndProcessed(m) ==
  \E p \in Procs :
    /\ run[p].pc = "done"
    /\ run[p].ok
    /\ m \in run[p].fetchedIds
    /\ m \notin run[p].failed

\* m is matched by the query of a run that starts now
InsideWindow(m) ==
  GmailMatchesQuery(m, createCutoffDate(now, clampLookbackDays(settings.syncLookbackDays)))

\* C38: a message the focus query matched and the fetch loop did not return
\* (a quota error ended the loop, or its own fetch failed) is fetched and
\* processed by a later run unless it leaves the lookback window; the
\* checkpoint written by the first run does not make the later run skip it
C38_MissedMessageIsFetchedLater ==
  \A m \in AllMsgIds : Missed(m) ~> (FetchedAndProcessed(m) \/ ~InsideWindow(m))

C38_Witness ==
  /\ FetchedAndProcessed("m1")
  /\ hist.faults = 1
  /\ hist.runs = 2
  /\ account.lastHistoryId # NoId
  /\ run["manual"].reason = "completed"
  /\ "m2" \notin run["manual"].fetchedIds
  /\ \E e \in db.emails : e.gmailMessageId = "m1" /\ e.applicationId # NoId

\* C36: every EmailMessage row linked to an Application carries the
\* Application's (groupSenderDomain, groupSubjectKey), and its
\* groupSenderDomain is the sender domain of its message
C36_LinkedEmailSharesGroupKey ==
  \A e \in db.emails :
    /\ e.groupSenderDomain = SenderDomainOfMessage(e.gmailMessageId)
    /\ e.applicationId # NoId =>
         \A a \in db.apps :
           a.id = e.applicationId =>
             /\ a.groupSenderDomain = e.groupSenderDomain
             /\ a.groupSubjectKey = e.groupSubjectKey

RuleStatus(ai, predictedStatus) ==
  IF ai.ok /\ ai.confidence >= OLLAMA_MIN_CONFIDENCE /\ ai.status \in ApplicationStatuses
    THEN ai.status
  ELSE IF predictedStatus = "unclassified" THEN "received"
  ELSE predictedStatus

\* the AI status when the result reaches the confidence threshold and its
\* status is one of the seven, else the classifier status with unclassified
\* read as received
StatusRule ==
  [m \in AllMsgIds |-> [k \in 1..Len(AiOutcomes) |->
     RuleStatus(AiOutcomes[k],
                classifyEmailContent(Messages[m].subject,
                                     cleanValue(Messages[m].bodyText)).predictedStatus)]]

\* the Application row the iteration in progress (or just ended) of run p wrote
WrittenBy(p) == run[p].cur.application

\* the iteration found the Application of the group with its status locked
FoundLocked(p) ==
  run[p].cur.existing # {} /\ \A e \in run[p].cur.existing : e.manualStatusLocked

\* C31 as stated: the status that ingestion writes to an Application is one
\* of the seven, and it is the status of the rule (confident AI status, else
\* classifier status, unclassified read as received)
C31_WrittenStatusFollowsRule ==
  /\ \A a \in db.apps : a.status \in ApplicationStatuses
  /\ \A p \in Procs : \A a \in WrittenBy(p) :
       a.status = StatusRule[run[p].cur.m][run[p].cur.ai]

\* C31 amended: the status that ingestion writes to an Application is one of
\* the seven; it is the status of the rule, except that the update of an
\* Application found with manualStatusLocked set writes back the status read
\* from that Application
C31_WrittenStatusFollowsRuleUnlessLocked ==
  /\ \A a \in db.apps : a.status \in ApplicationStatuses
  /\ \A p \in Procs : \A a \in WrittenBy(p) :
       IF FoundLocked(p)
         THEN \A e \in run[p].cur.existing : a.status = e.status
         ELSE a.status = StatusRule[run[p].cur.m][run[p].cur.ai]

\* an update of a locked Application kept a status that the rule would have
\* replaced, after an earlier write took the status of a confident AI result
C31_Witness ==
  /\ \E a \in WrittenBy("manual") :
       /\ FoundLocked("manual")
       /\ a.status # StatusRule[run["manual"].cur.m][run["manual"].cur.ai]
  /\ hist.answers >= 1

(***************************************************************************)
(* Company identity and business outcome of one message, as a function of  *)
(* the message, the AI result and the store found                          *)
(***************************************************************************)
\* messages as the provider returns them: an ATS sender whose display name is
\* the employer, a direct sender, an ATS sender named in the subject, an ATS
\* sender with a generic display name, a sender whose subject names a role,
\* and a direct sender with an interview subject
IdentityInputs ==
  << [from |-> <<"C","y","b","e","r","A","r","k"," ","<","j","o","b","s","@","g","r","e","e","n","h","o","u","s","e",".","i","o",">">>,
      subject |-> <<"T","h","a","n","k"," ","y","o","u"," ","f","o","r"," ","a","p","p","l","y","i","n","g">>,
      bodyText |-> <<>>, internalDate |-> 10],
     [from |-> <<"j","o","b","s","@","a","c","m","e",".","c","o","m">>,
      subject |-> <<"T","h","a","n","k","s"," ","f","o","r"," ","a","p","p","l","y","i","n","g"," ","t","o"," ","A","c","m","e">>,
      bodyText |-> <<>>, internalDate |-> 10],
     [from |-> <<"\"","I","n","i","t","e","c","h","\""," ","<","n","o","-","r","e","p","l","y","@","l","e","v","e","r",".","c","o",">">>,
      subject |-> <<"T","h","a","n","k","s"," ","f","o","r"," ","a","p","p","l","y","i","n","g"," ","t","o"," ","I","n","i","t","e","c","h">>,
      bodyText |-> <<>>, internalDate |-> 10],
     [from |-> <<"J","o","b","s"," ","<","j","o","b","s","@","g","r","e","e","n","h","o","u","s","e",".","i","o",">">>,
      subject |-> <<"T","h","a","n","k"," ","y","o","u"," ","f","o","r"," ","a","p","p","l","y","i","n","g">>,
      bodyText |-> <<>>, internalDate |-> 10],
     [from |-> <<"I","n","i","t","e","c","h"," ","<","h","r","@","i","n","i","t","e","c","h",".","c","o","m",">">>,
      subject |-> <<"S","o","f","t","w","a","r","e"," ","E","n","g","i","n","e","e","r"," ","a","t"," ","I","n","i","t","e","c","h">>,
      bodyText |-> <<"T","h","a","n","k"," ","y","o","u"," ","f","o","r"," ","a","p","p","l","y","i","n","g",".">>, internalDate |-> 10],
     [from |-> <<"j","o","b","s","@","a","c","m","e",".","c","o","m">>,
      subject |-> <<"Y","o","u","r"," ","i","n","t","e","r","v","i","e","w"," ","w","i","t","h"," ","A","c","m","e">>,
      bodyText |-> <<"T","h","a","n","k","s"," ","f","o","r"," ","a","p","p","l","y","i","n","g",".">>, internalDate |-> 10] >>

\* AI results: a failure, two results below the confidence threshold that
\* differ in every field, a confident result with a company and a domain, a
\* confident exclusion, a confident result without a domain
AiSamples ==
  << AiFailure(<<"O","l","l","a","m","a"," ","d","i","d"," ","n","o","t"," ","r","e","t","u","r","n"," ","J","S","O","N"," ","p","a","y","l","o","a","d">>),
     AiExtraction(40, FALSE, "rejected", <<"O","t","h","e","r"," ","r","o","l","e">>,
                  <<"G","l","o","b","e","x">>, <<"g","l","o","b","e","x",".","c","o","m">>, <<"D","a","t","a"," ","E","n","g","i","n","e","e","r">>),
     AiExtraction(60, TRUE, "offer", <<"S","e","c","o","n","d"," ","k","e","y">>,
                  <<"U","m","b","r","e","l","l","a">>, <<"u","m","b","r","e","l","l","a",".","o","r","g">>, <<"P","r","o","d","u","c","t"," ","M","a","n","a","g","e","r">>),
     AiExtraction(90, TRUE, "interview", NoKey,
                  <<"C","y","b","e","r","A","r","k">>, <<"C","y","b","e","r","A","r","k",".","c","o","m">>, <<"D","a","t","a"," ","E","n","g","i","n","e","e","r">>),
     AiValue(90, FALSE, "null", NoKey),
     AiExtraction(90, TRUE, "offer", <<"A","c","m","e"," ","A","p","p","l","i","c","a","t","i","o","n">>, <<>>, <<>>, <<>>) >>

\* the results below the threshold
SubThresholdSamples == {2, 3}

\* the Application of the message's group that the store holds beforehand
PriorKinds == {"none", "unlocked", "locked"}

PriorStore(kind, parsed) ==
  IF kind = "none" THEN EmptyStore
  ELSE [EmptyStore EXCEPT
          !.apps = {[SeedApplication EXCEPT
                       !.groupSenderDomain =
                          normalizeDomain(extractDomainFromEmail(extractEmailAddress(parsed.from))),
                       !.groupSubjectKey =
                          normalizeGroupSubjectKey(normalizeSubjectForGroup(parsed.subject)),
                       !.roleTitle = <<"Q","A"," ","L","e","a","d">>,
                       !.status = "assessment",
                       !.manualStatusLocked = (kind = "locked")]},
          !.nextAppId = 2]

OutcomeOfWrite(r, eventType, written) ==
  [r |-> r, included |-> TRUE, eventType |-> eventType,
   application |-> written.L.cur.application]

OutcomeOfFound(r, found) ==
  OutcomeOfWrite(r, found.L.cur.eventType, WriteApplication(found.L, found.d, 100, r))

OutcomeOfResolved(r, d) ==
  IF r.kind # "resolved"
    THEN [r |-> r, included |-> FALSE, eventType |-> "", application |-> {}]
    ELSE OutcomeOfFound(r,
           FindExisting([cur |-> [NoCur EXCEPT
                                    !.m = "m1",
                                    !.existingGroup =
                                       FindApplicationByGroup(d, r.groupSenderDomain,
                                                              r.groupSubjectKey),
                                    !.emailId = d.nextEmailId],
                         failed |-> {}],
                        d, r))

\* one loop iteration of runSync on message parsed with AI result aiResult
\* and store d, no store call failing: the resolution, the inclusion
\* decision, the event type and the Application row written
IngestOutcome(parsed, aiResult, d) ==
  OutcomeOfResolved(ResolveParsed("m1", parsed, aiResult), d)

NoOutcome == [included |-> FALSE]

IdentityInputStates ==
  [pc : {"input"}, message : 1..Len(IdentityInputs), ai : 1..Len(AiSamples),
   other : SubThresholdSamples, prior : PriorKinds,
   first : {NoOutcome}, second : {NoOutcome}]

InitIdentity ==
  /\ now = 100
  /\ mailbox = {}
  /\ settings = [followupAfterDays |-> 1, syncLookbackDays |-> 1]
  /\ account = [connected |-> TRUE, lastHistoryId |-> NoId]
  /\ db = EmptyStore
  /\ run = [p \in Procs |-> IdleRun]
  /\ ollama = IdleOllama
  /\ textCall \in IdentityInputStates
  /\ sched = IdleSched
  /\ batch = NoJobs
  /\ hist = InitHist

\* the iteration with the AI result of the run
IdentityCall ==
  /\ textCall.pc = "input"
  /\ textCall' = [textCall EXCEPT
       !.pc = "resolved",
       !.first = IngestOutcome(IdentityInputs[textCall.message], AiSamples[textCall.ai],
                               PriorStore(textCall.prior, IdentityInputs[textCall.message]))]
  /\ UNCHANGED <<now, mailbox, settings, account, db, run, ollama, sched, batch, hist>>

\* the same iteration with another AI result below the threshold
IdentityOtherCall ==
  /\ textCall.pc = "resolved"
  /\ textCall' = [textCall EXCEPT
       !.pc = "both",
       !.second = IngestOutcome(IdentityInputs[textCall.message], AiSamples[textCall.other],
                                PriorStore(textCall.prior, IdentityInputs[textCall.message]))]
  /\ UNCHANGED <<now, mailbox, settings, account, db, run, ollama, sched, batch, hist>>

NextIdentity ==
  \/ IdentityCall
  \/ IdentityOtherCall

SpecIdentity == InitIdentity /\ [][NextIdentity]_vars

\* the business state of an iteration: the inclusion decision, the group
\* key, the event type, and company, role and status of the Application
BusinessState(o) ==
  [included |-> o.included,
   groupSenderDomain |-> o.r.groupSenderDomain,
   groupSubjectKey |-> o.r.groupSubjectKey,
   eventType |-> o.eventType,
   application |-> {[companyName |-> a.companyName, companyDomain |-> a.companyDomain,
                     roleTitle |-> a.roleTitle, status |-> a.status] : a \in o.application}]

\* the AI result is a parsed extraction whose confidence is below the threshold
BelowThreshold(aiResult) == aiResult.ok /\ aiResult.confidence < OLLAMA_MIN_CONFIDENCE

\* C32: for the same message and prior store, two iterations that differ only
\* in the content of an AI result below the confidence threshold produce the
\* same group key, Application company, role and status, event type and
\* inclusion decision
C32_SubThresholdAiIsAdvisory ==
  ( /\ textCall.pc = "both"
    /\ BelowThreshold(AiSamples[textCall.ai])
    /\ BelowThreshold(AiSamples[textCall.other]) )
  => BusinessState(textCall.first) = BusinessState(textCall.second)

\* two different results below the threshold, for a message that is ingested
\* and changes the status of the Application found; only the stored
\* confidence differs
C32_Witness ==
  /\ textCall.pc = "both"
  /\ BelowThreshold(AiSamples[textCall.ai])
  /\ AiSamples[textCall.ai] # AiSamples[textCall.other]
  /\ textCall.first.included
  /\ textCall.first.eventType = "status_changed"
  /\ textCall.first.application # {}
  /\ textCall.first.r.aiConfidence # textCall.second.r.aiConfidence

\* the domains derived from the ATS vendor's own domain
AtsVendorDomains(senderDomain) ==
  {senderDomain, normalizeDomain(inferCompanyNameFromDomain(senderDomain))}

\* a display name that is neither empty, nor a generic word, nor a role title
UsableDisplayName(displayName) ==
  /\ displayName # <<>>
  /\ toLowerCase(displayName) \notin GENERIC_DISPLAY_NAMES
  /\ ~looksLikeRoleTitle(displayName)

\* C34: for a message ingested from a known ATS domain whose company no
\* subject-based step resolved, the company name is the sender display name
\* and the company domain is the AI-extracted domain when present, otherwise
\* never a domain derived from the ATS vendor's own domain
C34_AtsSenderNamedByDisplayName ==
  (textCall.pc \in {"resolved", "both"} /\ textCall.first.included) =>
    LET r == textCall.first.r
        displayName == sanitizeCompanyName(r.fromDisplayName)
    IN ( /\ isAtsDomain(r.senderDomain)
         /\ r.companySource # "subject"
         /\ UsableDisplayName(displayName) )
       => /\ r.resolvedName = displayName
          /\ IF r.aiCompanyDomain # <<>>
               THEN r.companyDomain = r.aiCompanyDomain
               ELSE r.companyDomain \notin AtsVendorDomains(r.senderDomain)

\* C33: no step of ingestion sets the roleTitle of an Application back to
\* "unknown-role" once it differed from it, nor its companyName back to
\* "Unknown Company", and no step changes the firstSeenAt of an Application
C33_KnownFieldsAreKept ==
  [][\A a \in db.apps : \A b \in db'.apps :
       b.id = a.id =>
         /\ a.roleTitle # UNKNOWN_ROLE => b.roleTitle # UNKNOWN_ROLE
         /\ a.companyName # UNKNOWN_COMPANY => b.companyName # UNKNOWN_COMPANY
         /\ b.firstSeenAt = a.firstSeenAt]_vars

====
